---- MODULE Spec2Model ----
(***************************************************************************)
(* Model of Code_Knowledge_Prep.py: the project bundler                    *)
(* (_bundle_project_worker and the helpers it calls) and the knowledge     *)
(* encoder (_process_documents_worker, process_single_file).               *)
(*                                                                         *)
(* Text is modelled as sequences of code points (naturals), so that        *)
(* comparison, suffix extraction, case mapping and glob matching are       *)
(* computed as the Python code computes them.                              *)
(***************************************************************************)
EXTENDS Integers, Sequences, FiniteSets, TLC

(***************************************************************************)
(* Bounds of the model.                                                    *)
(***************************************************************************)
MaxSize == 2        \* text files of the tree have 0..MaxSize bytes
MaxCap == 2         \* per-file cap entered by the user: 0..MaxCap
MaxTotal == 2       \* total cap entered by the user: 0..MaxTotal
MaxEdits == 1       \* configuration edits the user makes while a run is active
MaxEnv == 1         \* changes of the tree made by the environment
MaxRuns == 2        \* bundle runs started in one session
MaxClock == 1       \* the wall clock advances at most this many seconds
MaxPuts == 3        \* events put by a worker seen through the channel
MaxPaths == 2       \* knowledge files selected for one reference sheet
MaxRefFaults == 1   \* reads of knowledge files that fail in one run
MaxRefRuns == 1     \* reference sheet runs started in one session
MaxScratch == 3     \* files in the scratch directory of an unpacked MOBI
MaxRules == 2       \* rules in the rule list of a traversal
MaxLines == 2       \* lines of the project's ignore file
MaxTokens == 4      \* pieces a text given to the normalizer is made of

(***************************************************************************)
(* Strings as code-point sequences.                                        *)
(***************************************************************************)
Min(a, b) == IF a <= b THEN a ELSE b
Max(a, b) == IF a >= b THEN a ELSE b

\* str.lower() on one ASCII code point
Lower(c) == IF c \in 65..90 THEN c + 32 ELSE c
LowerSeq(s) == [i \in 1..Len(s) |-> Lower(s[i])]

\* Python's < on str: lexicographic by code point
RECURSIVE SeqLess(_, _)
SeqLess(a, b) ==
    IF b = <<>> THEN FALSE
    ELSE IF a = <<>> THEN TRUE
    ELSE IF Head(a) # Head(b) THEN Head(a) < Head(b)
    ELSE SeqLess(Tail(a), Tail(b))

\* Python's < on tuples of strings / tuples (size, str): element by element
RECURSIVE TupleLess(_, _)
TupleLess(k1, k2) ==
    IF k2 = <<>> THEN FALSE
    ELSE IF k1 = <<>> THEN TRUE
    ELSE IF Head(k1) # Head(k2) THEN SeqLess(Head(k1), Head(k2))
    ELSE TupleLess(Tail(k1), Tail(k2))

\* list.sort(key=K): a stable sort, ties keep their order in s
SortByKey(s, K(_)) ==
    LET rank(i) == Cardinality({j \in 1..Len(s) :
                        \/ TupleLess(K(s[j]), K(s[i]))
                        \/ (K(s[j]) = K(s[i]) /\ j < i)}) + 1
    IN [r \in 1..Len(s) |-> s[CHOOSE i \in 1..Len(s) : rank(i) = r]]

\* str.rfind(c) + 1 (0 when absent)
LastIndexOf(s, c) ==
    LET hits == {i \in 1..Len(s) : s[i] = c}
    IN IF hits = {} THEN 0 ELSE CHOOSE i \in hits : \A j \in hits : j <= i

StartsWith(s, p) == Len(p) <= Len(s) /\ SubSeq(s, 1, Len(p)) = p
EndsWith(s, p) == Len(p) <= Len(s) /\ SubSeq(s, Len(s) - Len(p) + 1, Len(s)) = p

\* Path.name / os.path.basename: the part after the last '/'
Basename(p) == SubSeq(p, LastIndexOf(p, 47) + 1, Len(p))

\* Path.suffix: from the last '.' of the name, unless it leads or ends the name
Suffix(p) ==
    LET name == Basename(p)
        j == LastIndexOf(name, 46)
    IN IF 1 < j /\ j < Len(name) THEN SubSeq(name, j, Len(name)) ELSE <<>>

\* fnmatch.fnmatch on POSIX: '*' any run, '?' any one character, the rest
\* literal (no rule of the model uses a '[' class)
RECURSIVE fnmatch(_, _)
fnmatch(s, pat) ==
    IF pat = <<>> THEN s = <<>>
    ELSE IF Head(pat) = 42
        THEN fnmatch(s, Tail(pat)) \/ (s # <<>> /\ fnmatch(Tail(s), pat))
    ELSE IF Head(pat) = 63
        THEN s # <<>> /\ fnmatch(Tail(s), Tail(pat))
    ELSE s # <<>> /\ Head(s) = Head(pat) /\ fnmatch(Tail(s), Tail(pat))

(***************************************************************************)
(* Ignore rules and traversal.                                             *)
(***************************************************************************)
DEFAULT_IGNORE == <<
       <<46,103,105,116,47>>,  \* .git/
       <<46,103,105,116,105,103,110,111,114,101>>,  \* .gitignore
       <<46,103,105,116,97,116,116,114,105,98,117,116,101,115>>,  \* .gitattributes
       <<112,111,101,116,114,121,46,108,111,99,107>>,  \* poetry.lock
       <<112,110,112,109,45,108,111,99,107,46,121,97,109,108>>,  \* pnpm-lock.yaml
       <<112,97,99,107,97,103,101,45,108,111,99,107,46,106,115,111,110>>,  \* package-lock.json
       <<121,97,114,110,46,108,111,99,107>>,  \* yarn.lock
       <<95,95,112,121,99,97,99,104,101,95,95,47>>,  \* __pycache__/
       <<42,46,112,121,99>>,  \* *.pyc
       <<42,46,112,121,111>>,  \* *.pyo
       <<42,46,112,121,100>>,  \* *.pyd
       <<42,46,101,103,103>>,  \* *.egg
       <<42,46,101,103,103,45,105,110,102,111,47>>,  \* *.egg-info/
       <<112,105,112,45,119,104,101,101,108,45,109,101,116,97,100,97,116,97,47>>,  \* pip-wheel-metadata/
       <<118,101,110,118,47>>,  \* venv/
       <<46,118,101,110,118,47>>,  \* .venv/
       <<101,110,118,47>>,  \* env/
       <<46,116,111,120,47>>,  \* .tox/
       <<98,105,110,47>>,  \* bin/
       <<111,98,106,47>>,  \* obj/
       <<42,46,99,115,112,114,111,106,46,117,115,101,114>>,  \* *.csproj.user
       <<42,46,115,108,110,46,100,111,116,115,101,116,116,105,110,103,115>>,  \* *.sln.dotsettings
       <<110,111,100,101,95,109,111,100,117,108,101,115,47>>,  \* node_modules/
       <<46,112,110,112,109,45,115,116,111,114,101,47>>,  \* .pnpm-store/
       <<46,101,110,118>>,  \* .env
       <<46,101,110,118,46,42>>,  \* .env.*
       <<110,98,112,114,111,106,101,99,116,47>>,  \* nbproject/
       <<42,46,115,117,98,108,105,109,101,45,119,111,114,107,115,112,97,99,101>>,  \* *.sublime-workspace
       <<46,118,115,99,111,100,101,47>>,  \* .vscode/
       <<46,105,100,101,97,47>>,  \* .idea/
       <<118,101,110,100,111,114,47>>,  \* vendor/
       <<98,117,105,108,100,47>>,  \* build/
       <<100,105,115,116,47>>,  \* dist/
       <<116,97,114,103,101,116,47>>,  \* target/
       <<111,117,116,47>>,  \* out/
       <<42,46,108,111,103>>,  \* *.log
       <<42,46,100,98>>,  \* *.db
       <<42,46,115,113,108,105,116,101>>,  \* *.sqlite
       <<42,46,115,113,108,105,116,101,51>>,  \* *.sqlite3
       <<42,46,100,98,45,106,111,117,114,110,97,108>>,  \* *.db-journal
       <<46,68,83,95,83,116,111,114,101>>,  \* .DS_Store
       <<84,104,117,109,98,115,46,100,98>>  \* Thumbs.db
    >>

BINARY_EXT_LIKELY == {
    <<46,112,110,103>>, <<46,106,112,103>>, <<46,106,112,101,103>>, <<46,119,101,98,112>>,
    <<46,103,105,102>>, <<46,98,109,112>>, <<46,105,99,111>>, <<46,112,100,102>>,
    <<46,122,105,112>>, <<46,103,122>>, <<46,116,97,114>>, <<46,116,103,122>>,
    <<46,98,122,50>>, <<46,120,122>>, <<46,55,122>>, <<46,115,111>>, <<46,100,108,108>>,
    <<46,100,121,108,105,98>>, <<46,101,120,101>>, <<46,98,105,110>>,
    <<46,99,108,97,115,115>>, <<46,111>>, <<46,97>>, <<46,116,116,102>>, <<46,111,116,102>>,
    <<46,119,111,102,102>>, <<46,119,111,102,102,50>>, <<46,109,112,51>>, <<46,119,97,118>>,
    <<46,102,108,97,99>>, <<46,111,103,103>>, <<46,109,112,52>>, <<46,109,111,118>>,
    <<46,109,107,118>>, <<46,97,118,105>> }

\* The project tree of the model: root-relative paths of its files.
\* "l" is a symlink to a directory; "o.txt" is the bundle's output file.
TreeFiles == {
    <<97,46,112,121>>,                        \* a.py
    <<98,46,112,110,103>>,                    \* b.png
    <<99,46,116,120,116>>,                    \* c.txt
    <<100,47,101,46,112,121>>,                \* d/e.py
    <<108,47,115,46,112,121>>,                \* l/s.py
    <<98,117,105,108,100,47,120,46,112,121>>, \* build/x.py
    <<111,46,116,120,116>> }                  \* o.txt
SymlinkDirs == { <<108,47>> }                 \* l/
OutputName == <<111,46,116,120,116>>          \* output_file.name
ScriptName == <<67,111,100,101,95,75,110,111,119,108,101,100,103,101,95,80,114,101,112,46,112,121>>

\* norm_for_match of a directory: its root-relative path ending with '/'.
\* The directories above file p, outermost first.
AncestorDirs(p) ==
    LET cuts == {i \in 1..Len(p) : p[i] = 47}
    IN {SubSeq(p, 1, i) : i \in cuts}

\* name of the directory whose norm_for_match is d
DirName(d) == Basename(SubSeq(d, 1, Len(d) - 1))

should_ignoreMutant(name, rel, patterns) ==
    \E k \in 1..Len(patterns) :
        LET pat == patterns[k]
        IN IF EndsWith(pat, <<47>>)
           THEN StartsWith(rel, SubSeq(pat, 1, Len(pat) - 1))
           ELSE fnmatch(name, pat) \/ fnmatch(rel, pat)
\* lines 142-154
should_ignore(name, rel, patterns) ==
    \E k \in 1..Len(patterns) :
        LET pat == patterns[k]
        IN IF EndsWith(pat, <<47>>)
           THEN \/ fnmatch(name \o <<47>>, pat)
                \/ fnmatch(rel, pat)
                \/ StartsWith(rel, pat)
           ELSE fnmatch(name, pat) \/ fnmatch(rel, pat)

\* os.walk(topdown=True, followlinks=follow) with ignored directories pruned:
\* the set of files iter_files yields
iter_files_set(patterns, follow) ==
    {p \in TreeFiles :
        /\ \A d \in AncestorDirs(p) :
              /\ ~should_ignore(DirName(d), d, patterns)
              /\ (d \in SymlinkDirs => follow)
        /\ ~should_ignore(Basename(p), p, patterns)}

\* The order in which os.walk yields them: a directory's files sorted by name,
\* then its sub-directories in sorted order.
WalkKey(p) ==
    LET cuts == {i \in 1..Len(p) : p[i] = 47}
    IN IF cuts = {} THEN << <<0>>, p >> ELSE << <<1>>, p >>

RECURSIVE SetToSeq(_)
SetToSeq(S) ==
    IF S = {} THEN <<>>
    ELSE LET x == CHOOSE y \in S : \A z \in S \ {y} : TupleLess(WalkKey(y), WalkKey(z))
         IN <<x>> \o SetToSeq(S \ {x})

iter_files(patterns, follow) == SetToSeq(iter_files_set(patterns, follow))


\* read_gitignore_patterns: the stripped lines of .gitignore that are neither
\* empty nor comments ('#'); the tree of the model has no .gitignore
GitignoreLines == <<>>
read_gitignore_patterns ==
    SelectSeq(GitignoreLines, LAMBDA l : l # <<>> /\ Head(l) # 35)

\* ignore_patterns as the bundle worker assembles them
ignore_patterns ==
    DEFAULT_IGNORE \o read_gitignore_patterns \o <<OutputName, ScriptName>>

(***************************************************************************)
(* Per-file helpers of the bundler.                                        *)
(***************************************************************************)
\* TEXT_EXT_HINT.get(suffix.lower(), "Plain Text"), for the suffixes of the tree
detect_language(p) ==
    LET e == LowerSeq(Suffix(p))
    IN IF e = <<46,112,121>> THEN "Python"
       ELSE IF e = <<46,116,120,116>> THEN "Text"
       ELSE "Plain Text"

\* is_probably_binary: a known binary suffix, or a file that cannot be opened
\* and read (line 168); no file of the tree holds a NUL byte
is_probably_binary(p, opens) == LowerSeq(Suffix(p)) \in BINARY_EXT_LIKELY \/ ~opens

\* raw_full[:cap] on a byte string of n bytes: the number of bytes kept
SliceLen(n, cap) == IF cap >= 0 THEN Min(n, cap) ELSE Max(n + cap, 0)

\* str(i): the decimal digits of a natural number, as code points
RECURSIVE Decimal(_)
Decimal(n) == IF n < 10 THEN <<48 + n>> ELSE Decimal(n \div 10) \o <<48 + (n % 10)>>

\* format(i, "0{w}d"): str(i) left-padded with '0' to at least w characters
ZeroPad(i, w) ==
    LET d == Decimal(i)
    IN [k \in 1..Max(0, w - Len(d)) |-> 48] \o d

\* a width that ignores the number of files
IdWidthMutant(n) == 4
\* id_width = max(4, len(str(len(files))))
IdWidth(n) == Max(4, Len(Decimal(n)))

\* self.id_prefix_var.get() or "F"
EffectivePrefix(v) == IF v = <<>> THEN <<70>> ELSE v

\* The sort keys of the three sort modes (size is st_size at sort time)
SortKey(p, mode, sizes) ==
    IF mode = "size" THEN << <<sizes[p]>>, p >>
    ELSE IF mode = "ext" THEN << LowerSeq(Suffix(p)), p >>
    ELSE << p >>

SortFiles(fs, mode, sizes) == SortByKey(fs, LAMBDA p : SortKey(p, mode, sizes))

\* render_llm_usage_guide: which text is written
render_llm_usage_guide(guide_mode) ==
    IF guide_mode = "none" THEN "" 
    ELSE IF guide_mode = "verbose" THEN "guide+reading strategy"
    ELSE "guide"

(***************************************************************************)
(* make_tree_map: the lines of the project map.                            *)
(***************************************************************************)
RootName == <<114,111,111,116>>               \* root
ParentDir(x) ==
    LET y == IF EndsWith(x, <<47>>) THEN SubSeq(x, 1, Len(x) - 1) ELSE x
    IN SubSeq(y, 1, LastIndexOf(y, 47))
NameOf(x) == IF EndsWith(x, <<47>>) THEN DirName(x) ELSE Basename(x)

RECURSIVE SortByName(_)
SortByName(S) ==
    IF S = {} THEN <<>>
    ELSE LET x == CHOOSE y \in S : \A z \in S \ {y} : SeqLess(NameOf(y), NameOf(z))
         IN <<x>> \o SortByName(S \ {x})

RECURSIVE render(_, _, _)
render(d, prefix, visible) ==
    LET dir_set == UNION {AncestorDirs(f) : f \in visible}
        subdirs == SortByName({x \in dir_set : ParentDir(x) = d})
        fls == SortByName({f \in visible : ParentDir(f) = d})
        RECURSIVE dirLines(_)
        dirLines(i) ==
            IF i > Len(subdirs) THEN <<>>
            ELSE LET is_last == (i = Len(subdirs)) /\ fls = <<>>
                     branch == IF is_last THEN <<9492,9472,9472,32>>
                                          ELSE <<9500,9472,9472,32>>
                     new_prefix == prefix \o (IF is_last THEN <<32,32,32,32>>
                                                         ELSE <<9474,32,32,32>>)
                 IN << prefix \o branch \o NameOf(subdirs[i]) \o <<47>> >>
                    \o render(subdirs[i], new_prefix, visible)
                    \o dirLines(i + 1)
        fileLines == [j \in 1..Len(fls) |->
                        prefix \o (IF j = Len(fls) THEN <<9492,9472,9472,32>>
                                                   ELSE <<9500,9472,9472,32>>)
                               \o NameOf(fls[j])]
    IN dirLines(1) \o fileLines

make_tree_map(visible) == << RootName \o <<47>> >> \o render(<<>>, <<>>, visible)


(***************************************************************************)
(* State.                                                                  *)
(***************************************************************************)
VARIABLES
    \* presentation layer: the Tk variables of the bundler tab, the buttons
    sort_mode_var, id_prefix_var, follow_symlinks_var, llm_guide_var,
    max_bytes_per_file_var, max_total_bytes_var, ui_enabled, polling,
    \* environment: byte size of each file of the tree, last time read
    fsize, clock,
    \* the bundle worker thread: position, arguments and locals
    bpc, args, files, sort_mode, id_prefix, id_width, meta, idx,
    written_total, out,
    \* history of the session: configuration when the run was started, the
    \* tree version it started on, the previous completed run, counters
    cfg_at_start, epoch_at_start, edits_at_start, used_follow, prev_run,
    edits, epoch, runs,
    \* the files whose reads may raise, the files whose read raised in the
    \* metadata pass and in the write pass of the current run
    flaky, meta_failed, write_failed,
    \* what the path of the project root names, what it named when the
    \* bundle button was last pressed, whether the output file was opened
    \* for writing since
    root_kind, root_at_start, wrote

uiVars == <<sort_mode_var, id_prefix_var, follow_symlinks_var, llm_guide_var,
            max_bytes_per_file_var, max_total_bytes_var>>
envVars == <<fsize, clock, epoch, flaky>>
workerVars == <<bpc, args, files, sort_mode, id_prefix, id_width, meta, idx,
                written_total, out, used_follow>>
histVars == <<cfg_at_start, epoch_at_start, edits_at_start, prev_run, runs>>
failVars == <<meta_failed, write_failed>>
rootVars == <<root_kind, root_at_start, wrote>>
bundleVars == <<uiVars, ui_enabled, polling, envVars, workerVars, histVars, failVars,
               rootVars, edits>>

VARIABLES
    \* presentation layer: the document queue and the last DocID prefix
    file_queue, docid_prefix,
    \* the worker thread of _process_documents_worker: position, arguments
    kpc, file_paths, chunk_size, k_id_prefix,
    \* its locals
    batch_num, chunk, pending, processed_docs, total_processed, total_failed,
    done,
    \* the knowledge files written, one entry per batch
    kfiles,
    \* history: the outcome(s) recorded for each input, the inputs in the
    \* order their futures completed, the inputs whose worker died, the first batch whose output
    \* could not be opened (0: none), runs started
    outcomes, completed, crashed, fail_batch, kruns

knowVars == <<file_queue, docid_prefix, kpc, file_paths, chunk_size, k_id_prefix,
              batch_num, chunk, pending, processed_docs, total_processed,
              total_failed, done, kfiles, outcomes, completed, crashed,
              fail_batch, kruns>>

\* the id assignment loop of the bundle worker, run on file counts of any
\* size: number of files, prefix typed, position reached, the id given at
\* that position and at the position visited before
VARIABLES id_n, id_typed, id_i, id_cur, id_prev

idVars == <<id_n, id_typed, id_i, id_cur, id_prev>>

\* the message channel between a worker thread and the presentation layer:
\* the queue, the lines of the log widget, the progress bar, whether the
\* running poll has found the queue empty; history: every event put, every
\* event taken, in order
VARIABLES log_queue, log_display, progress, saw_empty, enqueued, delivered

\* a worker thread seen only through its puts on the channel: its position,
\* the number of events it has put
VARIABLES producer, puts

\* what _start_worker_thread leaves alone
logRest == <<log_queue, saw_empty, enqueued, delivered, producer, puts>>

logVars == <<log_queue, log_display, progress, saw_empty, enqueued, delivered,
             producer, puts>>

\* the worker thread of _create_reference_sheet_worker: position, argument,
\* locals, the sheet written; the reads that failed and the events put in
\* this run, runs started
VARIABLES rpc, input_paths, ref_i, ref_line, doc_references, matches_in_file,
          total_matches, ref_out, ref_faults, ref_events, ref_runs

refVars == <<rpc, input_paths, ref_i, ref_line, doc_references, matches_in_file,
             total_matches, ref_out, ref_faults, ref_events, ref_runs>>

\* one call of extract_text_from_mobi: position, the local temp_dir, the
\* scratch directory on disk (its files, in the order os.walk lists them,
\* or None), the file the loop is at, parts, the outcome of the call
VARIABLES mpc, temp_dir, scratch, m_i, parts, m_result

mobiVars == <<mpc, temp_dir, scratch, m_i, parts, m_result>>

\* one traversal by iter_files: its arguments patterns and follow_symlinks,
\* the directories os.walk has still to visit, the files yielded so far
VARIABLES w_patterns, w_follow, w_stack, w_yielded

walkVars == <<w_patterns, w_follow, w_stack, w_yielded>>

\* the rules of one bundle run tried on one path: the lines of the
\* project's ignore file and how many of them are read before a read
\* fails, the path (a file or a directory), the rule list assembled, the
\* verdicts of should_ignore under the defaults alone and under that list
VARIABLES ig_lines, ig_read, ig_path, ig_rules, ig_default, ig_merged, ig_pc

ruleVars == <<ig_lines, ig_read, ig_path, ig_rules, ig_default, ig_merged, ig_pc>>

\* two documents encoded one after the other: where each is stored and the
\* text extracted from it, the prefix, the results of process_single_file
VARIABLES doc_a, doc_b, doc_prefix, res_a, res_b, dpc

docVars == <<doc_a, doc_b, doc_prefix, res_a, res_b, dpc>>

\* two calls of IDManager.generate_short_id on the same arguments: the
\* arguments, the two ids returned, the number of calls made
VARIABLES sid_hash, sid_prefix, sid_length, sid_first, sid_second, sid_calls

sidVars == <<sid_hash, sid_prefix, sid_length, sid_first, sid_second, sid_calls>>

\* a call of normalize_text_code_safe: the text given, the text returned,
\* whether the call has returned
VARIABLES norm_in, norm_out, norm_done

normVars == <<norm_in, norm_out, norm_done>>

\* a document written to a knowledge file and the file indexed: the path,
\* the prefix typed, the record of the document, the line of the table of
\* contents, the entries the indexer registers, the position
VARIABLES toc_path, toc_typed, toc_doc, toc_line, toc_refs, toc_pc

tocVars == <<toc_path, toc_typed, toc_doc, toc_line, toc_refs, toc_pc>>

\* the variables of the other components of the model
baseVars == <<bundleVars, knowVars, idVars, logVars>>
notRef == <<mobiVars, walkVars, ruleVars, docVars, sidVars, normVars, tocVars>>
notMobi == <<refVars, walkVars, ruleVars, docVars, sidVars, normVars, tocVars>>
notWalk == <<refVars, mobiVars, ruleVars, docVars, sidVars, normVars, tocVars>>
notRule == <<refVars, mobiVars, walkVars, docVars, sidVars, normVars, tocVars>>
notDoc == <<refVars, mobiVars, walkVars, ruleVars, sidVars, normVars, tocVars>>
notSid == <<refVars, mobiVars, walkVars, ruleVars, docVars, normVars, tocVars>>
notNorm == <<refVars, mobiVars, walkVars, ruleVars, docVars, sidVars, tocVars>>
notToc == <<refVars, mobiVars, walkVars, ruleVars, docVars, sidVars, normVars>>
otherVars == <<refVars, notRef>>

\* The files whose length varies over the initial trees and over time
VaryingFiles == { <<97,46,112,121>>, <<99,46,116,120,116>> }   \* a.py, c.txt

SortModes == {"path", "size", "ext"}
GuideModes == {"short", "verbose", "none"}
IdPrefixes == {<<>>, <<70>>, <<71>>}          \* "", "F", "G"

NoBundle == [state |-> "none", stamp |-> 0, guide |-> "", tree |-> <<>>,
             index |-> <<>>, sections |-> <<>>, footer |-> <<>>]
NoRun == [valid |-> FALSE]

CurrentCfg == [sort |-> sort_mode_var, prefix |-> id_prefix_var,
               follow |-> follow_symlinks_var, guide |-> llm_guide_var,
               C |-> max_bytes_per_file_var, T |-> max_total_bytes_var]

\* The entries of the two caps as _create_code_bundler_tab leaves them
DefaultCaps ==
    /\ max_bytes_per_file_var = 2000000
    /\ max_total_bytes_var = 50000000

\* The caps typed into the two entries before the session of the model starts
TypedCaps ==
    /\ max_bytes_per_file_var \in 0..MaxCap
    /\ max_total_bytes_var \in 0..MaxTotal

\* The state after UnifiedLLMPrepTool.__init__ / _create_code_bundler_tab,
\* but for the two caps
InitBundleTab ==
    /\ sort_mode_var = "path"
    /\ id_prefix_var = <<70>>
    /\ follow_symlinks_var = FALSE
    /\ llm_guide_var = "short"
    /\ ui_enabled = TRUE
    /\ polling = FALSE
    /\ fsize \in [TreeFiles -> 0..MaxSize]
    /\ \A p \in TreeFiles \ VaryingFiles : fsize[p] = 1
    /\ clock = 0
    /\ epoch = 0
    /\ meta_failed = {}
    /\ write_failed = {}
    /\ root_at_start = "dir"
    /\ wrote = FALSE
    /\ bpc = "idle"
    /\ args = [C |-> 0, T |-> 0]
    /\ files = <<>>
    /\ sort_mode = ""
    /\ id_prefix = <<>>
    /\ id_width = 0
    /\ meta = <<>>
    /\ idx = 0
    /\ written_total = 0
    /\ out = NoBundle
    /\ used_follow = FALSE
    /\ cfg_at_start = CurrentCfg
    /\ epoch_at_start = 0
    /\ edits_at_start = 0
    /\ prev_run = NoRun
    /\ edits = 0
    /\ runs = 0

\* the project root is a directory and every file of the tree can be read
Reliable == flaky = {} /\ root_kind = "dir"

\* some text files of the tree cannot always be read
FlakyFiles == { <<97,46,112,121>>, <<99,46,116,120,116>> }   \* a.py, c.txt
Unreliable == flaky \in SUBSET FlakyFiles /\ root_kind = "dir"

\* the path of the project root names a directory, a regular file or nothing
RootKinds == {"dir", "file", "missing"}
AnyRoot == flaky = {} /\ root_kind \in RootKinds

InitBundle == DefaultCaps /\ Reliable /\ InitBundleTab

(***************************************************************************)
(* The user edits a configuration widget.  The combo boxes, entries and    *)
(* the check box stay enabled while a worker runs (_set_ui_state only      *)
(* disables the buttons).                                                  *)
(***************************************************************************)
SetSortMode(v) ==
    /\ edits < MaxEdits /\ v # sort_mode_var
    /\ sort_mode_var' = v
    /\ edits' = edits + 1
    /\ UNCHANGED <<id_prefix_var, follow_symlinks_var, llm_guide_var,
                   max_bytes_per_file_var, max_total_bytes_var, ui_enabled,
                   polling, envVars, workerVars, histVars, failVars, rootVars>>
    /\ UNCHANGED <<knowVars, idVars>>
    /\ UNCHANGED <<logVars, otherVars>>

SetIdPrefix(v) ==
    /\ edits < MaxEdits /\ v # id_prefix_var
    /\ id_prefix_var' = v
    /\ edits' = edits + 1
    /\ UNCHANGED <<sort_mode_var, follow_symlinks_var, llm_guide_var,
                   max_bytes_per_file_var, max_total_bytes_var, ui_enabled,
                   polling, envVars, workerVars, histVars, failVars, rootVars>>
    /\ UNCHANGED <<knowVars, idVars>>
    /\ UNCHANGED <<logVars, otherVars>>

ToggleFollowSymlinks ==
    /\ edits < MaxEdits
    /\ follow_symlinks_var' = ~follow_symlinks_var
    /\ edits' = edits + 1
    /\ UNCHANGED <<sort_mode_var, id_prefix_var, llm_guide_var,
                   max_bytes_per_file_var, max_total_bytes_var, ui_enabled,
                   polling, envVars, workerVars, histVars, failVars, rootVars>>
    /\ UNCHANGED <<knowVars, idVars>>
    /\ UNCHANGED <<logVars, otherVars>>

SetGuide(v) ==
    /\ edits < MaxEdits /\ v # llm_guide_var
    /\ llm_guide_var' = v
    /\ edits' = edits + 1
    /\ UNCHANGED <<sort_mode_var, id_prefix_var, follow_symlinks_var,
                   max_bytes_per_file_var, max_total_bytes_var, ui_enabled,
                   polling, envVars, workerVars, histVars, failVars, rootVars>>
    /\ UNCHANGED <<knowVars, idVars>>
    /\ UNCHANGED <<logVars, otherVars>>

SetMaxBytesPerFile(v) ==
    /\ edits < MaxEdits /\ v # max_bytes_per_file_var
    /\ max_bytes_per_file_var' = v
    /\ edits' = edits + 1
    /\ UNCHANGED <<sort_mode_var, id_prefix_var, follow_symlinks_var,
                   llm_guide_var, max_total_bytes_var, ui_enabled,
                   polling, envVars, workerVars, histVars, failVars, rootVars>>
    /\ UNCHANGED <<knowVars, idVars>>
    /\ UNCHANGED <<logVars, otherVars>>

SetMaxTotalBytes(v) ==
    /\ edits < MaxEdits /\ v # max_total_bytes_var
    /\ max_total_bytes_var' = v
    /\ edits' = edits + 1
    /\ UNCHANGED <<sort_mode_var, id_prefix_var, follow_symlinks_var,
                   llm_guide_var, max_bytes_per_file_var, ui_enabled,
                   polling, envVars, workerVars, histVars, failVars, rootVars>>
    /\ UNCHANGED <<knowVars, idVars>>
    /\ UNCHANGED <<logVars, otherVars>>

(***************************************************************************)
(* The environment rewrites a text file of the tree with another length.   *)
(***************************************************************************)
EnvResize(p, n) ==
    /\ epoch < MaxEnv /\ n # fsize[p]
    /\ fsize' = [fsize EXCEPT ![p] = n]
    /\ epoch' = epoch + 1
    /\ UNCHANGED <<uiVars, ui_enabled, polling, clock, flaky, workerVars, histVars,
                   failVars, rootVars, edits>>
    /\ UNCHANGED <<knowVars, idVars>>
    /\ UNCHANGED <<logVars, otherVars>>


(***************************************************************************)
(* start_code_bundling and _start_worker_thread.                           *)
(***************************************************************************)
WorkerAlive == bpc \notin {"idle", "done", "failed"}

\* What the run that just ended did, kept for comparing two runs
RunRecord ==
    [valid |-> TRUE,
     sort |-> sort_mode, prefix |-> id_prefix, follow |-> used_follow,
     C |-> args.C, T |-> args.T,
     cfg |-> cfg_at_start, epoch0 |-> epoch_at_start,
     edits0 |-> edits_at_start, out |-> out]

start_code_bundling ==
    /\ ui_enabled /\ runs < MaxRuns
    /\ root_at_start' = root_kind
    /\ wrote' = FALSE
    /\ UNCHANGED root_kind
    /\ IF root_kind = "missing"
       THEN \* line 793: project_root.exists() is false; showerror, return
            /\ UNCHANGED <<uiVars, ui_enabled, polling, envVars, workerVars,
                           histVars, failVars, edits>>
            /\ UNCHANGED <<logVars>>
       ELSE /\ args' = [C |-> max_bytes_per_file_var, T |-> max_total_bytes_var]
            /\ ui_enabled' = FALSE
            /\ polling' = TRUE
            /\ bpc' = "prepare"
            /\ files' = <<>> /\ sort_mode' = "" /\ id_prefix' = <<>>
            /\ id_width' = 0
            /\ meta' = <<>> /\ idx' = 0 /\ written_total' = 0
            /\ used_follow' = FALSE
            /\ out' = NoBundle  \* what this run has written to the output file
            /\ prev_run' = IF bpc = "done" THEN RunRecord ELSE prev_run
            /\ cfg_at_start' = CurrentCfg
            /\ epoch_at_start' = epoch
            /\ edits_at_start' = edits
            /\ runs' = runs + 1
            /\ meta_failed' = {} /\ write_failed' = {}
            /\ UNCHANGED <<uiVars, envVars, edits>>
            /\ log_display' = <<>> /\ progress' = 0     \* lines 1357-1360
            /\ UNCHANGED <<logRest>>
    /\ UNCHANGED <<knowVars, idVars>>
    /\ UNCHANGED otherVars

(***************************************************************************)
(* The environment replaces what the path of the project root names.       *)
(***************************************************************************)
EnvRoot(k) ==
    /\ epoch < MaxEnv /\ k # root_kind
    /\ root_kind' = k
    /\ epoch' = epoch + 1
    /\ UNCHANGED <<uiVars, ui_enabled, polling, fsize, clock, flaky, workerVars,
                   histVars, failVars, root_at_start, wrote, edits>>
    /\ UNCHANGED <<knowVars, idVars>>
    /\ UNCHANGED <<logVars, otherVars>>

(***************************************************************************)
(* _bundle_project_worker.                                                 *)
(***************************************************************************)
\* lines 819-849: assemble the rules, collect the files, sort them, fix the
\* id prefix and width
Prepare ==
    /\ bpc = "prepare"
    /\ used_follow' = follow_symlinks_var
    /\ sort_mode' = sort_mode_var
    /\ files' = IF root_kind = "dir"
                THEN SortFiles(iter_files(ignore_patterns, follow_symlinks_var),
                               sort_mode_var, fsize)
                ELSE <<>>       \* os.walk of a file or of nothing yields nothing
    /\ id_prefix' = EffectivePrefix(id_prefix_var)
    /\ id_width' = IdWidth(Len(files'))
    /\ bpc' = "meta"
    /\ UNCHANGED <<uiVars, ui_enabled, polling, envVars, args, meta, idx,
                   written_total, out, histVars, failVars, rootVars, edits>>
    /\ UNCHANGED <<knowVars, idVars>>
    /\ UNCHANGED <<logVars, otherVars>>

\* a numbering that a new run does not restart
file_idMutant(i, prefix, width) == prefix \o ZeroPad(i + 10 * (runs - 1), width)
\* file_id(i), with the enclosing id_prefix and id_width
file_id(i, prefix, width) == prefix \o ZeroPad(i, width)

\* lines 853-887: the metadata of file i (1-based position in files)
\* opens: the open and read of line 163 do not raise; reads: the
\* read_bytes of line 870 does not raise
MetaOf(i, p, n, cap, prefix, width, opens, reads) ==
    LET is_bin == is_probably_binary(p, opens)
        note == IF is_bin THEN "binary: skipped"
                ELSE IF ~reads THEN "read error: skipped"
                ELSE IF n > 0 /\ n > cap THEN "truncated"
                ELSE ""
    IN [id |-> file_id(i, prefix, width),
        path |-> p,
        lang |-> IF is_bin THEN "Binary" ELSE detect_language(p),
        size |-> n,
        sha1 |-> IF ~is_bin /\ reads /\ n > 0 THEN <<p, n>> ELSE <<>>,
        is_binary |-> is_bin,
        note |-> note]

\* the metadata pass over all files
Meta ==
    /\ bpc = "meta"
    /\ \E noOpen \in SUBSET (flaky \cap {files[i] : i \in 1..Len(files)}) :
       \E noRead \in SUBSET ((flaky \cap {files[i] : i \in 1..Len(files)}) \ noOpen) :
          /\ meta' = [i \in 1..Len(files) |->
                        MetaOf(i, files[i], fsize[files[i]], args.C, id_prefix,
                               id_width, files[i] \notin noOpen,
                               files[i] \notin noRead)]
          /\ meta_failed' = noOpen \cup noRead
    /\ bpc' = "open"
    /\ UNCHANGED <<uiVars, ui_enabled, polling, envVars, args, files, sort_mode,
                   id_prefix, id_width, idx, written_total, out, used_follow,
                   histVars, write_failed,
                   rootVars, edits>>
    /\ UNCHANGED <<knowVars, idVars>>
    /\ UNCHANGED <<logVars, otherVars>>

\* lines 893-924: read the time, open the output, write header, guide, map
\* and index.  Opening may fail: the exception ends the worker (line 981).
Open ==
    /\ bpc = "open"
    /\ \E t \in clock..MaxClock, ok \in BOOLEAN :
        /\ clock' = t
        /\ IF ok
           THEN /\ out' = [state |-> "open",
                           stamp |-> t,
                           guide |-> render_llm_usage_guide(llm_guide_var),
                           tree |-> make_tree_map({meta[k].path : k \in
                                     {j \in 1..Len(meta) : ~meta[j].is_binary}}),
                           index |-> meta,
                           sections |-> <<>>,
                           footer |-> <<>>]
                /\ written_total' = 0
                /\ wrote' = TRUE
                /\ idx' = 1
                /\ bpc' = IF meta = <<>> THEN "finish" ELSE "sections"
           ELSE /\ bpc' = "failed"
                /\ UNCHANGED <<out, written_total, idx, wrote>>
    /\ UNCHANGED <<uiVars, ui_enabled, polling, fsize, epoch, flaky, args, files,
                   sort_mode, id_prefix, id_width, meta, used_follow,
                   histVars, failVars, root_kind, root_at_start, edits>>
    /\ UNCHANGED <<knowVars, idVars>>
    /\ UNCHANGED <<logVars, otherVars>>

\* a test of the total alone, before the file is added
OverTotalMutant(total, len, cap) == total > cap
\* line 956: would this file push the bundle past the total cap?
OverTotal(total, len, cap) == total + len > cap

\* lines 926-973: the section of one file of the index
\* a file that cannot be read taken for an empty one
SectionOfMutant(m, n, total, a, reads) ==
    LET write_len == SliceLen(n, a.C)
        kind == IF m.is_binary THEN "binary"
                ELSE IF OverTotal(total, write_len, a.T) THEN "limit"
                ELSE "content"
    IN [id |-> m.id, path |-> m.path, note |-> m.note, kind |-> kind,
        begin |-> m.id, end |-> m.id,
        bytes |-> IF kind = "content" THEN write_len ELSE 0]

\* reads: the read_bytes of line 946 does not raise
SectionOf(m, n, total, a, reads) ==
    LET write_len == SliceLen(n, a.C)
        kind == IF m.is_binary THEN "binary"
                ELSE IF ~reads THEN "unreadable"
                ELSE IF OverTotal(total, write_len, a.T) THEN "limit"
                ELSE "content"
    IN [id |-> m.id, path |-> m.path, note |-> m.note, kind |-> kind,
        begin |-> m.id, end |-> m.id,
        bytes |-> IF kind = "content" THEN write_len ELSE 0]

Section ==
    /\ bpc = "sections"
    /\ \E reads \in {TRUE} \cup {meta[idx].path \notin flaky} :
       LET sec == SectionOf(meta[idx], fsize[meta[idx].path], written_total,
                            args, reads \/ meta[idx].is_binary)
       IN /\ out' = [out EXCEPT !.sections = Append(@, sec)]
          /\ written_total' = written_total + sec.bytes
          /\ write_failed' = IF reads \/ meta[idx].is_binary THEN write_failed
                             ELSE write_failed \cup {meta[idx].path}
    /\ idx' = idx + 1
    /\ bpc' = IF idx = Len(meta) THEN "finish" ELSE "sections"
    /\ UNCHANGED <<uiVars, ui_enabled, polling, envVars, args, files, sort_mode,
                   id_prefix, id_width, meta, used_follow, histVars,
                   meta_failed, rootVars, edits>>
    /\ UNCHANGED <<knowVars, idVars>>
    /\ UNCHANGED <<logVars, otherVars>>

\* lines 975-979: the completion line, the file is closed
Finish ==
    /\ bpc = "finish"
    /\ out' = [out EXCEPT !.footer = <<Len(meta), written_total>>,
                          !.state = "closed"]
    /\ bpc' = "done"
    /\ UNCHANGED <<uiVars, ui_enabled, polling, envVars, args, files, sort_mode,
                   id_prefix, id_width, meta, idx, written_total, used_follow,
                   histVars, failVars, rootVars, edits>>
    /\ UNCHANGED <<knowVars, idVars>>
    /\ UNCHANGED <<logVars, otherVars>>

(***************************************************************************)
(* Text utilities of the knowledge encoder.                                *)
(***************************************************************************)
\* the elements of s at the indices in keep, in order
AtIndices(s, keep) ==
    [k \in 1..Cardinality(keep) |->
        s[CHOOSE i \in keep : Cardinality({j \in keep : j < i}) = k - 1]]

\* str.isspace() on the ASCII range
IsSpace(c) == c \in (9..13) \cup (28..32)

\* str.strip()
Strip(s) ==
    IF \A i \in 1..Len(s) : IsSpace(s[i]) THEN <<>>
    ELSE SubSeq(s,
           CHOOSE i \in 1..Len(s) :
               ~IsSpace(s[i]) /\ \A j \in 1..(i - 1) : IsSpace(s[j]),
           CHOOSE i \in 1..Len(s) :
               ~IsSpace(s[i]) /\ \A j \in (i + 1)..Len(s) : IsSpace(s[j]))

\* sanitize_text: NFKC (the identity on the ASCII text of the model), then
\* "\r\n" and "\r" become "\n", then control characters are removed
sanitize_text(s) ==
    LET noLf == {i \in 1..Len(s) : ~(s[i] = 10 /\ i > 1 /\ s[i - 1] = 13)}
        s1 == [i \in 1..Len(s) |-> IF s[i] = 13 THEN 10 ELSE s[i]]
        s2 == AtIndices(s1, noLf)
        ctl == (0..8) \cup {11, 12} \cup (14..31) \cup {127}
    IN SelectSeq(s2, LAMBDA c : c \notin ctl)

\* _normalize_prose: the three substitutions, then strip()
normalize_prose(s) ==
    LET blank(t, i) == t[i] \in {32, 9}
        \* [ \t]+(?=\n): a run of blanks that ends right before a newline
        beforeNl(t, i) ==
            \E j \in (i + 1)..Len(t) :
                /\ t[j] = 10
                /\ \A k \in i..(j - 1) : blank(t, k)
        a == AtIndices(s, {i \in 1..Len(s) : ~beforeNl(s, i)})
        \* [ ]{2,} -> one space
        b == AtIndices(a, {i \in 1..Len(a) :
                            ~(a[i] = 32 /\ i > 1 /\ a[i - 1] = 32)})
        \* \n{3,} -> two newlines
        c == AtIndices(b, {i \in 1..Len(b) :
                            ~(b[i] = 10 /\ i > 2 /\ b[i - 1] = 10 /\ b[i - 2] = 10)})
    IN Strip(c)

CODE_START == <<64,64,64,67,79,68,69,66,76,79,67,75,95,83,84,65,82,84,64,64,64>>
CODE_END == <<64,64,64,67,79,68,69,66,76,79,67,75,95,69,78,68,64,64,64>>
FENCE == <<96,96,96>>

OccursAt(s, i, w) == i >= 1 /\ i + Len(w) - 1 <= Len(s) /\ SubSeq(s, i, i + Len(w) - 1) = w

\* The end of the _CODE_OR_MARKERS match that starts at i (0 when none does):
\* an opening marker, the shortest run of anything, the closing marker
SpanEnd(s, i) ==
    LET close(open, shut) ==
            LET qs == {q \in (i + Len(open))..Len(s) : OccursAt(s, q, shut)}
            IN IF ~OccursAt(s, i, open) \/ qs = {} THEN 0
               ELSE (CHOOSE q \in qs : \A r \in qs : q <= r) + Len(shut) - 1
        fence == close(FENCE, FENCE)
    IN IF fence # 0 THEN fence ELSE close(CODE_START, CODE_END)

\* the whole text from i on normalized as prose
normalize_fromMutant(s, i) == normalize_prose(SubSeq(s, i, Len(s)))

\* normalize_text_code_safe: prose between code spans is normalized, the
\* spans are copied
RECURSIVE normalize_from(_, _)
normalize_from(s, i) ==
    LET starts == {p \in i..Len(s) : SpanEnd(s, p) # 0}
    IN IF starts = {}
       THEN IF i <= Len(s) THEN normalize_prose(SubSeq(s, i, Len(s))) ELSE <<>>
       ELSE LET p == CHOOSE q \in starts : \A r \in starts : q <= r
                e == SpanEnd(s, p)
            IN (IF p > i THEN normalize_prose(SubSeq(s, i, p - 1)) ELSE <<>>)
               \o SubSeq(s, p, e)
               \o normalize_from(s, e + 1)

normalize_text_code_safe(s) == normalize_from(sanitize_text(s), 1)

\* os.path.splitext of a base name: <<root, ext>>
SplitExt(name) ==
    LET j == LastIndexOf(name, 46)
    IN IF j = 0 \/ \A k \in 1..j : name[k] = 46
       THEN <<name, <<>>>>
       ELSE <<SubSeq(name, 1, j - 1), SubSeq(name, j, Len(name))>>

IsUpper(c) == c \in 65..90
IsLower(c) == c \in 97..122
IsCased(c) == IsUpper(c) \/ IsLower(c)

\* str.title() on ASCII
TitleCase(s) ==
    [i \in 1..Len(s) |->
        IF i > 1 /\ IsCased(s[i - 1])
        THEN Lower(s[i])
        ELSE IF IsLower(s[i]) THEN s[i] - 32 ELSE s[i]]

\* re.sub(r"[^\w\s\-\.,'()&]+", ' ', raw): each run of other characters
\* becomes one space
TitleSafe(raw) ==
    LET ok(c) == \/ c \in (48..57) \cup (65..90) \cup (97..122) \cup {95}
                 \/ c \in (9..13) \cup {32}
                 \/ c \in {45, 46, 44, 39, 40, 41, 38}
        r1 == [i \in 1..Len(raw) |-> IF ok(raw[i]) THEN raw[i] ELSE 0]
        r2 == AtIndices(r1, {i \in 1..Len(r1) :
                              ~(r1[i] = 0 /\ i > 1 /\ r1[i - 1] = 0)})
    IN [i \in 1..Len(r2) |-> IF r2[i] = 0 THEN 32 ELSE r2[i]]

normalize_title_from_path(file_path) ==
    LET raw_name == SplitExt(Basename(file_path))[1]
        safe == Strip(TitleSafe(raw_name))
    IN normalize_text_code_safe(TitleCase(safe))

stable_sampleMutant(text, k) == text
\* _stable_sample(text, k)
stable_sample(text, k) ==
    LET n == Len(text)
        mid == n \div 2
    IN IF n <= k THEN text
       ELSE SubSeq(text, 1, k)
            \o SubSeq(text, Max(0, mid - k \div 2) + 1, mid + k \div 2)
            \o SubSeq(text, n - k + 1, n)


(***************************************************************************)
(* Hashing and DocIDs.                                                     *)
(***************************************************************************)
HexChar(d) == IF d < 10 THEN 48 + d ELSE 87 + d
HexVal(c) == IF c \in 48..57 THEN c - 48
             ELSE IF c \in 97..102 THEN c - 87
             ELSE c - 55

\* hashlib.sha256(...).hexdigest(): 64 hex digits that depend on every
\* character of the content.  SHA-256 itself is library code; this stand-in
\* keeps what the program relies on: equal contents give equal digests, and
\* the contents of the model get pairwise different digests.  Digit k is
\* the residue of h_n, where h_0 = n + k and h_i = 31 * h_(i-1) + c_i + k
\* (mod 65521), that is of  (n + k) * 31^n + Sum c_i * 31^(n-i) + k * Sum 31^j,
\* computed by halving so that contents of thousands of characters can be
\* digested.
MulMod(a, b) == (((a * (b \div 256)) % 65521) * 256 + a * (b % 256)) % 65521

RECURSIVE Pow31(_)
Pow31(n) ==
    IF n = 0 THEN 1
    ELSE IF n % 2 = 1 THEN (31 * Pow31(n - 1)) % 65521
    ELSE MulMod(Pow31(n \div 2), Pow31(n \div 2))

\* Sum of 31^j for j < n
RECURSIVE GeoSum(_)
GeoSum(n) ==
    IF n = 0 THEN 0
    ELSE IF n % 2 = 1 THEN (31 * GeoSum(n - 1) + 1) % 65521
    ELSE MulMod(GeoSum(n \div 2), (1 + Pow31(n \div 2)) % 65521)

\* Sum of c[i] * 31^(hi - i) for lo <= i <= hi
RECURSIVE PolySum(_, _, _)
PolySum(c, lo, hi) ==
    IF lo > hi THEN 0
    ELSE IF lo = hi THEN c[lo] % 65521
    ELSE (MulMod(PolySum(c, lo, (lo + hi) \div 2), Pow31(hi - (lo + hi) \div 2))
          + PolySum(c, (lo + hi) \div 2 + 1, hi)) % 65521

Digest64(n, a, g, q) ==
    [k \in 1..64 |-> HexChar(((MulMod(n + k, q) + a + MulMod(k, g)) % 65521) % 16)]

Sha256Hex(content) ==
    Digest64(Len(content), PolySum(content, 1, Len(content)),
             GeoSum(Len(content)), Pow31(Len(content)))

\* stable_hash
stable_hash(content) == <<115,104,97,50,53,54,45>> \o Sha256Hex(content)

ALPHABET == <<48,49,50,51,52,53,54,55,56,57,65,66,67,68,69,70,71,72,73,74,75,76,
              77,78,79,80,81,82,83,84,85,86,87,88,89,90>>

\* A natural number too large for machine integers is kept as its base-16
\* digits, most significant first.  <<n // base, n % base>>:
RECURSIVE DivMod(_, _, _, _)
DivMod(ds, base, q, r) ==
    IF ds = <<>> THEN <<q, r>>
    ELSE LET v == r * 16 + Head(ds)
         IN DivMod(Tail(ds), base, Append(q, v \div base), v % base)

IsZero(ds) == \A i \in 1..Len(ds) : ds[i] = 0

\* IDManager._int_to_base_n
RECURSIVE int_to_base_n_loop(_, _, _)
int_to_base_n_loop(ds, base, acc) ==
    IF IsZero(ds) THEN acc
    ELSE LET dm == DivMod(ds, base, <<>>, 0)
         IN int_to_base_n_loop(dm[1], base, <<ALPHABET[dm[2] + 1]>> \o acc)
int_to_base_n(ds, base) ==
    IF IsZero(ds) THEN <<ALPHABET[1]>> ELSE int_to_base_n_loop(ds, base, <<>>)

ZFillMutant(s, width) == s
\* str.zfill(width)
ZFill(s, width) == [k \in 1..Max(0, width - Len(s)) |-> 48] \o s

\* IDManager.generate_short_id, for a hash whose part after the first '-'
\* starts with hex digits (every hash stable_hash returns)
generate_short_id(content_hash, prefix, length) ==
    LET dashes == {i \in 1..Len(content_hash) : content_hash[i] = 45}
        rest == IF dashes = {}
                THEN Sha256Hex(content_hash)
                ELSE SubSeq(content_hash,
                            (CHOOSE i \in dashes : \A j \in dashes : i <= j) + 1,
                            Len(content_hash))
        hash_hex == SubSeq(rest, 1, Min(12, Len(rest)))
        hash_int == [i \in 1..Len(hash_hex) |-> HexVal(hash_hex[i])]
        base36_id == int_to_base_n(hash_int, Len(ALPHABET))
    IN prefix \o ZFill(base36_id, length)

(***************************************************************************)
(* Documents of the model and their extraction.                            *)
(***************************************************************************)
\* The document files the user can queue, and what each holds.
DocPaths == {
    <<65,47,120,46,116,120,116>>,      \* A/x.txt  "hi"
    <<66,47,120,46,116,120,116>>,      \* B/x.txt  "hi"  (same name and text)
    <<65,47,121,46,109,100>>,          \* A/y.md   "yo"
    <<65,47,122,46,101,120,101>>,      \* A/z.exe  (no extractor)
    <<65,47,101,46,116,120,116>>,      \* A/e.txt  " \n" (blank)
    <<65,47,115,46,112,100,102>> }     \* A/s.pdf  a scanned PDF, no text layer
DocRaw(p) ==
    IF Basename(p) = <<120,46,116,120,116>> THEN <<104,105>>
    ELSE IF Basename(p) = <<121,46,109,100>> THEN <<121,111>>
    ELSE IF Basename(p) = <<101,46,116,120,116>> THEN <<32,10>>
    ELSE <<>>

TXT_EXTENSIONS == {
    <<46,116,120,116>>, <<46,109,100>>, <<46,109,97,114,107,100,111,119,110>>,
    <<46,114,115,116>>, <<46,99,115,118>>, <<46,116,115,118>>, <<46,108,111,103>>,
    <<46,106,115,111,110>>, <<46,120,109,108>>, <<46,121,97,109,108>>,
    <<46,121,109,108>>, <<46,116,111,109,108>>, <<46,105,110,105>>, <<46,99,102,103>>,
    <<46,99,111,110,102>>, <<46,115,113,108>>, <<46,116,101,120>>, <<46,114,116,102>> }
LIB_EXTENSIONS == { <<46,112,100,102>>, <<46,101,112,117,98>>, <<46,109,111,98,105>> }

Failure(reason) ==
    [ok |-> FALSE, error |-> reason, short_id |-> <<>>, full_hash |-> <<>>,
     title |-> <<>>, text |-> <<>>]

\* extract_text_from_txt: <<raised, text>>
extract_text_from_txt(file_path) ==
    LET text == normalize_text_code_safe(DocRaw(file_path))
    IN IF Strip(text) = <<>> THEN <<TRUE, <<>>>> ELSE <<FALSE, text>>

\* extract_text_from_pdf / _epub / _mobi: the text the library returns, run
\* through normalize_text_code_safe; empty text raises ExtractionError
extract_text_from_library(file_path) ==
    LET text == normalize_text_code_safe(DocRaw(file_path))
    IN IF text = <<>> THEN <<TRUE, <<>>>> ELSE <<FALSE, text>>

\* process_single_file
\* line 472: the text that is hashed; lines 474-481: the record returned
HashContent(title, text) == normalize_text_code_safe(title) \o stable_sample(text, 2000)

DocResult(title, text, full_hash, prefix) ==
    [ok |-> TRUE, error |-> "",
     short_id |-> generate_short_id(full_hash, prefix, 6),
     full_hash |-> full_hash, title |-> title, text |-> text]

\* lines 467-483: after the extractor returned got = <<raised, text>>
AfterExtraction(title, got, prefix) ==
    IF got[1] THEN Failure("ExtractionError")
    ELSE IF Strip(got[2]) = <<>> THEN Failure("Extracted text is empty.")
    ELSE DocResult(title, got[2], stable_hash(HashContent(title, got[2])), prefix)

process_single_file(file_path, prefix) ==
    LET ext == LowerSeq(SplitExt(Basename(file_path))[2])
    IN IF ext \notin TXT_EXTENSIONS \cup LIB_EXTENSIONS
       THEN Failure("Unsupported file type")
       ELSE AfterExtraction(normalize_title_from_path(file_path),
                            IF ext \in TXT_EXTENSIONS
                            THEN extract_text_from_txt(file_path)
                            ELSE extract_text_from_library(file_path),
                            prefix)


(***************************************************************************)
(* The knowledge encoder: state.                                           *)
(***************************************************************************)
MaxQueue == 3       \* documents the user queues
MaxChunk == 2       \* documents per knowledge file the user may ask for
MaxCrashes == 1     \* extraction workers that die with an exception
MaxKRuns == 1       \* knowledge-encoding runs started in one session

\* What the user may type as DocID prefix: "DOC", "d-1", ""
PrefixInputs == { <<68,79,67>>, <<100,45,49>>, <<>> }

\* start_processing, lines 1087-1092: keep letters and digits, upper-case
\* them, fall back to "DOC"
SanitizePrefix(typed) ==
    LET kept == SelectSeq(typed, LAMBDA c : c \in (48..57) \cup (65..90) \cup (97..122))
        up == [i \in 1..Len(kept) |-> IF IsLower(kept[i]) THEN kept[i] - 32 ELSE kept[i]]
    IN IF up = <<>> THEN <<68,79,67>> ELSE up

InitKnow ==
    /\ file_queue = <<>>
    /\ docid_prefix = <<68,79,67>>
    /\ kpc = "idle"
    /\ file_paths = <<>>
    /\ chunk_size = 0
    /\ k_id_prefix = <<>>
    /\ batch_num = 0
    /\ chunk = <<>>
    /\ pending = {}
    /\ processed_docs = <<>>
    /\ total_processed = 0
    /\ total_failed = 0
    /\ done = 0
    /\ kfiles = <<>>
    /\ outcomes = [p \in DocPaths |-> <<>>]
    /\ completed = <<>>
    /\ crashed = {}
    /\ fail_batch = 0
    /\ kruns = 0

KnowAlive == kpc \notin {"idle", "done"}

(***************************************************************************)
(* add_files, start_processing.                                            *)
(***************************************************************************)
\* add_files, for one file chosen in the dialog: appended unless queued
add_files(f) ==
    /\ ui_enabled
    /\ Len(file_queue) < MaxQueue
    /\ file_queue' = IF \E i \in 1..Len(file_queue) : file_queue[i] = f
                     THEN file_queue ELSE Append(file_queue, f)
    /\ file_queue' # file_queue
    /\ UNCHANGED <<docid_prefix, kpc, file_paths, chunk_size, k_id_prefix,
                   batch_num, chunk, pending, processed_docs, total_processed,
                   total_failed, done, kfiles, outcomes, completed, crashed,
                   fail_batch, kruns>>
    /\ UNCHANGED <<bundleVars, idVars>>
    /\ UNCHANGED <<logVars, otherVars>>

\* start_processing: the dialogs answered with n documents per file and a
\* typed prefix; the worker thread is started on a copy of the queue
start_processing(n, typed) ==
    /\ ui_enabled /\ kruns < MaxKRuns
    /\ file_queue # <<>>
    /\ docid_prefix' = SanitizePrefix(typed)
    /\ file_paths' = file_queue
    /\ chunk_size' = n
    /\ k_id_prefix' = SanitizePrefix(typed)
    /\ ui_enabled' = FALSE
    /\ polling' = TRUE
    /\ kpc' = "sort"
    /\ kruns' = kruns + 1
    \* the history of this run starts empty
    /\ kfiles' = <<>> /\ outcomes' = [q \in DocPaths |-> <<>>]
    /\ completed' = <<>> /\ crashed' = {} /\ fail_batch' = 0
    /\ UNCHANGED <<file_queue, batch_num, chunk, pending, processed_docs,
                   total_processed, total_failed, done>>
    /\ UNCHANGED <<uiVars, envVars, workerVars, histVars, failVars, rootVars, edits, idVars>>
    /\ log_display' = <<>> /\ progress' = 0     \* lines 1357-1360
    /\ UNCHANGED <<logRest, otherVars>>

(***************************************************************************)
(* _process_documents_worker.                                              *)
(***************************************************************************)
\* slices that share their first element with the slice before
ChunkOfMutant(paths, size, b) ==
    SubSeq(paths, Max(1, (b - 1) * size), Min(b * size, Len(paths)))

\* file_paths[i:i + chunk_size] for the batch numbered b (from 1)
ChunkOf(paths, size, b) ==
    SubSeq(paths, (b - 1) * size + 1, Min(b * size, Len(paths)))

NumChunks(paths, size) == (Len(paths) + size - 1) \div size

\* lines 1102-1109: sort by basename (stable), reset the counters
KSort ==
    /\ kpc = "sort"
    /\ file_paths' = SortByKey(file_paths, LAMBDA q : <<Basename(q)>>)
    /\ total_processed' = 0 /\ total_failed' = 0 /\ batch_num' = 1
    /\ done' = 0
    /\ kpc' = "submit"
    /\ UNCHANGED <<file_queue, docid_prefix, chunk_size, k_id_prefix, chunk,
                   pending, processed_docs, kfiles, outcomes, completed,
                   crashed, fail_batch, kruns>>
    /\ UNCHANGED <<bundleVars, idVars>>
    /\ UNCHANGED <<logVars, otherVars>>

\* lines 1111-1119: the next chunk is handed to a fresh process pool
KSubmit ==
    /\ kpc = "submit"
    /\ chunk' = ChunkOf(file_paths, chunk_size, batch_num)
    /\ processed_docs' = <<>>
    /\ pending' = {chunk'[i] : i \in 1..Len(chunk')}
    /\ kpc' = "pool"
    /\ UNCHANGED <<file_queue, docid_prefix, file_paths, chunk_size,
                   k_id_prefix, batch_num, total_processed, total_failed, done,
                   kfiles, outcomes, completed, crashed, fail_batch, kruns>>
    /\ UNCHANGED <<bundleVars, idVars>>
    /\ UNCHANGED <<logVars, otherVars>>

\* chunk.index(src_path), 0-based
IndexIn(c, q) == (CHOOSE i \in 1..Len(c) : c[i] = q /\ \A j \in 1..(i-1) : c[j] # q) - 1

\* what the future of src_path yields: the result of process_single_file, or
\* the error made up at line 1126 when the worker died
FutureResult(src_path, died, prefix) ==
    IF died THEN Failure("Worker crashed") ELSE process_single_file(src_path, prefix)

\* lines 1132-1133: the result with its _order
WithOrder(result, src_path, c) ==
    [src |-> src_path, order |-> IndexIn(c, src_path),
     short_id |-> result.short_id, full_hash |-> result.full_hash,
     title |-> result.title, text |-> result.text]

\* an error that cancels the futures not yet completed
StillPendingMutant(pend, src_path, ok) == IF ok THEN pend \ {src_path} ELSE {}
\* the futures still to be yielded by as_completed after that of src_path
StillPending(pend, src_path, ok) == pend \ {src_path}

\* lines 1128-1137 on the result of one future
Collect(src_path, died, result) ==
    /\ IF ~result.ok
       THEN /\ total_failed' = total_failed + 1
            /\ processed_docs' = processed_docs
       ELSE /\ total_failed' = total_failed
            /\ processed_docs' = Append(processed_docs, WithOrder(result, src_path, chunk))
    /\ outcomes' = [outcomes EXCEPT ![src_path] = Append(@, result)]
    /\ completed' = Append(completed, src_path)
    /\ pending' = StillPending(pending, src_path, result.ok)
    /\ crashed' = IF died THEN crashed \cup {src_path} ELSE crashed
    /\ done' = done + 1

\* lines 1120-1137: as_completed yields the future of src_path; its worker
\* either returned the result of process_single_file or died
KComplete(src_path, died) ==
    /\ kpc = "pool"
    /\ src_path \in pending
    /\ died => Cardinality(crashed) < MaxCrashes
    /\ Collect(src_path, died, FutureResult(src_path, died, k_id_prefix))
    /\ kpc' = IF pending' = {} THEN "write" ELSE "pool"
    /\ UNCHANGED <<file_queue, docid_prefix, file_paths, chunk_size,
                   k_id_prefix, batch_num, chunk, total_processed, kfiles,
                   fail_batch, kruns>>
    /\ UNCHANGED <<bundleVars, idVars>>
    /\ UNCHANGED <<logVars, otherVars>>

\* the documents left in completion order
SortDocsMutant(docs) == docs
\* line 1140: processed_docs.sort(key=lambda x: x['_order'])
SortDocs(docs) == SortByKey(docs, LAMBDA d : <<<<d.order>>>>)

\* lines 1143-1157: what is written to the knowledge file of a batch
KnowledgeFile(b, docs) ==
    [batch |-> b, written |-> TRUE,
     toc |-> [i \in 1..Len(docs) |->
                [short_id |-> docs[i].short_id, full_hash |-> docs[i].full_hash,
                 title |-> docs[i].title]],
     docs |-> [i \in 1..Len(docs) |->
                [src |-> docs[i].src, short_id |-> docs[i].short_id,
                 title |-> docs[i].title, body |-> sanitize_text(docs[i].text),
                 end_id |-> docs[i].short_id]]]

NoKnowledgeFile(b) == [batch |-> b, written |-> FALSE, toc |-> <<>>, docs |-> <<>>]

\* lines 1139-1166: the batch is written if it has documents; opening the
\* output may raise IOError, which is logged; then the next batch
KWrite ==
    /\ kpc = "write"
    /\ \E ok \in BOOLEAN :
        IF processed_docs # <<>>
        THEN /\ processed_docs' = SortDocs(processed_docs)
             /\ IF ok
                THEN /\ kfiles' = Append(kfiles, KnowledgeFile(batch_num, processed_docs'))
                     /\ total_processed' = total_processed + Len(processed_docs)
                     /\ fail_batch' = fail_batch
                ELSE /\ kfiles' = Append(kfiles, NoKnowledgeFile(batch_num))
                     /\ total_processed' = total_processed
                     /\ fail_batch' = IF fail_batch = 0 THEN batch_num ELSE fail_batch
        ELSE /\ ok
             /\ kfiles' = Append(kfiles, NoKnowledgeFile(batch_num))
             /\ UNCHANGED <<processed_docs, total_processed, fail_batch>>
    /\ batch_num' = batch_num + 1
    /\ kpc' = IF batch_num < NumChunks(file_paths, chunk_size) THEN "submit" ELSE "summary"
    /\ UNCHANGED <<file_queue, docid_prefix, file_paths, chunk_size,
                   k_id_prefix, chunk, pending, total_failed, done, outcomes,
                   completed, crashed, kruns>>
    /\ UNCHANGED <<bundleVars, idVars>>
    /\ UNCHANGED <<logVars, otherVars>>

\* lines 1168-1170: the summary lines; the thread ends
KSummary ==
    /\ kpc = "summary"
    /\ kpc' = "done"
    /\ UNCHANGED <<file_queue, docid_prefix, file_paths, chunk_size,
                   k_id_prefix, batch_num, chunk, pending, processed_docs,
                   total_processed, total_failed, done, kfiles, outcomes,
                   completed, crashed, fail_batch, kruns>>
    /\ UNCHANGED <<bundleVars, idVars>>
    /\ UNCHANGED <<logVars, otherVars>>

(***************************************************************************)
(* The channel between the worker threads and the presentation layer       *)
(* (line 542): queue.Queue, put by the workers, drained by the poll.       *)
(***************************************************************************)
\* the number written by a string of decimal digits
RECURSIVE DecimalValue(_)
DecimalValue(ds) ==
    IF ds = <<>> THEN 0
    ELSE 10 * DecimalValue(SubSeq(ds, 1, Len(ds) - 1)) + (ds[Len(ds)] - 48)

\* an event is the pair (message, level) of a put; the message is its fixed
\* text and the values formatted into it, as code points
Event(text, fmt, level) == [text |-> text, args |-> fmt, level |-> level]

\* queue.Queue.put: the event joins the tail
put(q, e) == Append(q, e)

\* queue.Queue.get_nowait on a non-empty queue: the position it takes
get_nowaitMutant(q) == Len(q)
get_nowait(q) == 1

\* the queue without the element at position i
Without(q, i) == SubSeq(q, 1, i - 1) \o SubSeq(q, i + 1, Len(q))

\* int() of a numeral: <<TRUE, value>>, or <<FALSE, 0>> where int() raises
IsDigits(s) == s # <<>> /\ \A i \in 1..Len(s) : s[i] \in 48..57
ParseInt(s) == IF IsDigits(s) THEN <<TRUE, DecimalValue(s)>> ELSE <<FALSE, 0>>

\* lines 1336-1343: the message is a progress update that int() accepts
IsProgress(e) ==
    /\ e.text = "__PROGRESS__"
    /\ Len(e.args) = 1
    /\ ParseInt(e.args[1])[1]

\* lines 1345-1347: the line appended to the log widget (the time of day at
\* its front is left out) and its tag
DisplayLine(e) == [text |-> e.text, args |-> e.args, tag |-> e.level]

\* log_message (lines 1333-1350) on the pair (log_display, progress)
log_message(display, bar, e) ==
    IF IsProgress(e)
    THEN <<display, ParseInt(e.args[1])[2]>>
    ELSE <<Append(display, DisplayLine(e)), bar>>

\* the worker of the reference sheet is running
RefAlive == rpc \notin {"idle", "done"}

\* processing_thread.is_alive() for the thread started last
ThreadAlive == WorkerAlive \/ KnowAlive \/ RefAlive \/ producer = "alive"

\* lines 1385-1386: one turn of the loop, the queue is not empty
poll_get ==
    /\ polling /\ ~saw_empty /\ log_queue # <<>>
    /\ LET i == get_nowait(log_queue)
           r == log_message(log_display, progress, log_queue[i])
       IN  /\ log_queue' = Without(log_queue, i)
           /\ delivered' = Append(delivered, log_queue[i])
           /\ log_display' = r[1]
           /\ progress' = r[2]
    /\ UNCHANGED <<saw_empty, enqueued, producer, puts>>
    /\ UNCHANGED <<bundleVars, knowVars, idVars, otherVars>>

\* lines 1387-1388: get_nowait raises queue.Empty, the loop is left
poll_empty ==
    /\ polling /\ ~saw_empty /\ log_queue = <<>>
    /\ saw_empty' = TRUE
    /\ UNCHANGED <<log_queue, log_display, progress, enqueued, delivered,
                   producer, puts>>
    /\ UNCHANGED <<bundleVars, knowVars, idVars, otherVars>>

(***************************************************************************)
(* Text constants of the reference sheet worker, as code points.            *)
(***************************************************************************)
\* the front of a full hash (line 51)
SHA_PREFIX == <<115,104,97,50,53,54,45>>    \* 'sha256-'
\* fixed text of lines 1146 and 1195
TOC_OPEN == <<91,68,111,99,73,68,58,32>>    \* '[DocID: '
TOC_MID == <<41,32,124,32,84,105,116,108,101,58,32>>    \* ') | Title: '
\* the token of line 1211
DOCID_TOKEN == <<91,68,111,99,73,68,58>>    \* '[DocID:'
\* the names of three knowledge files
K1 == <<75,47,107,49,46,116,120,116>>    \* 'K/k1.txt'
K2 == <<75,47,107,50,46,116,120,116>>    \* 'K/k2.txt'
K3 == <<75,47,107,51,46,116,120,116>>    \* 'K/k3.txt'
\* DocIDs and titles in them
ID_D1 == <<68,49>>    \* 'D1'
ID_D2 == <<68,50>>    \* 'D2'
ID_D3 == <<68,51>>    \* 'D3'
T_ALPHA == <<65,108,112,104,97>>    \* 'Alpha'
T_BETA == <<98,101,116,97>>    \* 'beta'
T_OTHER == <<79,116,104,101,114>>    \* 'Other'
T_GAMMA == <<71,97,109,109,97>>    \* 'Gamma'
T_ZED == <<90,101,100>>    \* 'Zed'
\* a line in the format of the reference sheet (line 1229)
SHEET_LINE == <<91,68,111,99,73,68,58,32,68,57,32,124,32,84,105,116,108,101,58,32,66,97,100,93,32,124,32,91,83,111,117,114,99,101,70,105,108,101,58,32,107,48,46,116,120,116,93,10>>    \* '[DocID: D9 | Title: Bad] | [SourceFile: k0.txt]\\n'
\* a line of document text
PLAIN_LINE == <<116,101,120,116,10>>    \* 'text\\n'

(***************************************************************************)
(* A worker thread seen only through the channel: any of the three         *)
(* workers, putting the events of its put sites in some order.             *)
(***************************************************************************)
\* lines 819, 891/973/1137, 1170: events that workers put
ProducerEvents == {
    Event("Starting project bundling...", <<>>, "HEADER"),
    Event("__PROGRESS__", <<Decimal(50)>>, "INFO"),
    Event("__PROGRESS__", <<Decimal(100)>>, "INFO"),
    Event("Total files failed: ", <<Decimal(1)>>, "ERROR") }

LogIdle ==
    /\ log_queue = <<>> /\ log_display = <<>> /\ progress = 0
    /\ saw_empty = FALSE /\ enqueued = <<>> /\ delivered = <<>>
    /\ producer = "idle" /\ puts = 0

\* the worker puts the events es, in this order
Enqueue(es) ==
    /\ log_queue' = log_queue \o es
    /\ enqueued' = enqueued \o es

\* _start_worker_thread (lines 1352-1365) with some worker as its target
start_worker_thread ==
    /\ ui_enabled /\ puts < MaxPuts
    /\ ui_enabled' = FALSE
    /\ log_display' = <<>> /\ progress' = 0
    /\ producer' = "alive"
    /\ polling' = TRUE
    /\ UNCHANGED <<log_queue, saw_empty, enqueued, delivered, puts>>
    /\ UNCHANGED <<uiVars, envVars, workerVars, histVars, failVars, rootVars, edits>>
    /\ UNCHANGED <<knowVars, idVars, otherVars>>

\* self.log_queue.put((message, level)) in the worker
worker_put(e) ==
    /\ producer = "alive" /\ puts < MaxPuts
    /\ Enqueue(<<e>>)
    /\ puts' = puts + 1
    /\ UNCHANGED <<log_display, progress, saw_empty, delivered, producer>>
    /\ UNCHANGED <<bundleVars, knowVars, idVars, otherVars>>

\* the target function returns, the thread ends
worker_exit ==
    /\ producer = "alive"
    /\ producer' = "dead"
    /\ UNCHANGED <<log_queue, log_display, progress, saw_empty, enqueued,
                   delivered, puts>>
    /\ UNCHANGED <<bundleVars, knowVars, idVars, otherVars>>

(***************************************************************************)
(* The reference sheet: start_reference_sheet_creation and its worker      *)
(* _create_reference_sheet_worker (lines 1172-1235).                       *)
(***************************************************************************)
\* a digest as the knowledge encoder writes it: sha256- and 64 hex digits
RefDigest == SHA_PREFIX \o [i \in 1..64 |-> HexChar(i % 16)]

\* line 1146: a line of the table of contents of a knowledge file
TocLine(short_id, full_hash, title) ==
    TOC_OPEN \o short_id \o <<32,40>> \o full_hash \o TOC_MID \o title \o <<93,10>>

\* the knowledge files that can be selected, as their lines
RefPaths == { K1, K2, K3 }
RefLines(path) ==
    IF path = K1
    THEN << TocLine(ID_D1, RefDigest, T_ALPHA),
            SHEET_LINE,
            TocLine(ID_D2, RefDigest, T_BETA) >>
    ELSE IF path = K2
    THEN << TocLine(ID_D1, RefDigest, T_OTHER),
            TocLine(ID_D3, RefDigest, T_GAMMA),
            TocLine(ID_D3, RefDigest, T_ZED) >>
    ELSE << PLAIN_LINE >>

\* the selections of the file dialog (line 1178): one to MaxPaths files
RefSelections ==
    {sel \in UNION {[1..n -> RefPaths] : n \in 1..MaxPaths} :
        \A i, j \in 1..Len(sel) : i # j => sel[i] # sel[j]}

\* line 1195: doc_id_regex.match(line): <<matched, short_id, title>>
IsIdChar(c) == c \in 48..57 \/ c \in 65..90
IsLowerHex(c) == c \in 48..57 \/ c \in 97..102
NoRefMatch == <<FALSE, <<>>, <<>>>>
doc_id_regex_match(line) ==
    IF ~StartsWith(line, TOC_OPEN) THEN NoRefMatch
    ELSE LET a == Len(TOC_OPEN) + 1                   \* start of group 1
             stops == {i \in a..Len(line) : ~IsIdChar(line[i])}
         IN IF stops = {} THEN NoRefMatch
            ELSE LET b == CHOOSE i \in stops : \A j \in stops : i <= j
                     h == b + 2                       \* start of group 2
                     t == h + 71 + Len(TOC_MID)       \* start of group 3
                     ends == {i \in t..Len(line) : line[i] = 93}
                 IN IF \/ b = a
                       \/ ~OccursAt(line, b, <<32,40>>)
                       \/ ~OccursAt(line, h, SHA_PREFIX)
                       \/ h + 70 > Len(line)
                       \/ \E i \in (h + 7)..(h + 70) : ~IsLowerHex(line[i])
                       \/ ~OccursAt(line, h + 71, TOC_MID)
                       \/ ends = {}
                    THEN NoRefMatch
                    ELSE LET c == CHOOSE i \in ends : \A j \in ends : i <= j
                         IN IF c = t \/ \E i \in (c + 1)..Len(line) : ~IsSpace(line[i])
                            THEN NoRefMatch
                            ELSE <<TRUE, SubSeq(line, a, b - 1), SubSeq(line, t, c - 1)>>

\* line 1211: "[DocID:" in line
HasDocIdToken(line) == \E i \in 1..Len(line) : OccursAt(line, i, DOCID_TOKEN)

\* dict.setdefault (line 1208) on a dict kept as its items in insertion order
setdefaultMutant(refs, key, value) ==
    IF \E i \in 1..Len(refs) : refs[i].short_id = key
    THEN [i \in 1..Len(refs) |->
            IF refs[i].short_id = key
            THEN [short_id |-> key, title |-> value.title, source |-> value.source]
            ELSE refs[i]]
    ELSE Append(refs, [short_id |-> key, title |-> value.title, source |-> value.source])
setdefault(refs, key, value) ==
    IF \E i \in 1..Len(refs) : refs[i].short_id = key
    THEN refs
    ELSE Append(refs, [short_id |-> key, title |-> value.title, source |-> value.source])

\* line 1223: sorted(doc_references.items(), key=title.lower())
sorted_refs(refs) == SortByKey(refs, LAMBDA r : <<LowerSeq(r.title)>>)

\* lines 1225-1231: the reference sheet written; no sheet
ReferenceSheet(refs) ==
    [written |-> TRUE,
     index |-> [i \in 1..Len(refs) |->
                  [short_id |-> refs[i].short_id, title |-> refs[i].title,
                   source |-> refs[i].source]]]
NoSheet == [written |-> FALSE, index |-> <<>>]

RefIdle ==
    /\ rpc = "idle" /\ input_paths = <<>> /\ ref_i = 0 /\ ref_line = 0
    /\ doc_references = <<>> /\ matches_in_file = 0 /\ total_matches = 0
    /\ ref_out = NoSheet /\ ref_faults = <<>> /\ ref_runs = 0
    /\ ref_events = <<>>

\* the file the loop of line 1198 is at
RefPath == input_paths[ref_i]

\* lines 1172-1188 with _start_worker_thread (1352-1365)
start_reference_sheet_creation(paths) ==
    /\ ui_enabled /\ ref_runs < MaxRefRuns
    /\ input_paths' = paths
    /\ ui_enabled' = FALSE
    /\ log_display' = <<>> /\ progress' = 0
    /\ polling' = TRUE
    /\ rpc' = "begin"
    /\ ref_i' = 0 /\ ref_line' = 0 /\ doc_references' = <<>>
    /\ matches_in_file' = 0 /\ total_matches' = 0
    /\ ref_out' = NoSheet          \* what this run has written
    /\ ref_faults' = <<>>
    /\ ref_events' = <<>>
    /\ ref_runs' = ref_runs + 1
    /\ UNCHANGED logRest
    /\ UNCHANGED <<uiVars, envVars, workerVars, histVars, failVars, rootVars, edits>>
    /\ UNCHANGED <<knowVars, idVars, notRef>>

\* the variables of the presentation layer that the worker never touches
refFrame == <<bundleVars, knowVars, idVars, log_display, progress, saw_empty,
              delivered, producer, puts, notRef>>

\* the worker of the reference sheet puts the events es, in this order
RefPut(es) == Enqueue(es) /\ ref_events' = ref_events \o es

\* lines 1213-1216: where the worker goes on once the except clause of the
\* loop body has logged the failure: at the count of the file
after_exceptMutant == "final"
after_except == "found"

\* lines 1192-1197
RefBegin ==
    /\ rpc = "begin"
    /\ RefPut(<<Event("Starting Reference Sheet creation...", <<>>, "SUMMARY")>>)
    /\ doc_references' = <<>>
    /\ total_matches' = 0
    /\ ref_i' = 1
    /\ rpc' = "scan"
    /\ UNCHANGED <<input_paths, ref_line, matches_in_file, ref_out, ref_faults,
                   ref_runs>>
    /\ UNCHANGED refFrame

\* lines 1199-1203 (and 1213-1214): the next file is announced and opened;
\* open() may raise
RefScan(fails) ==
    /\ rpc = "scan"
    /\ fails => Len(ref_faults) < MaxRefFaults
    /\ matches_in_file' = 0
    /\ IF fails
       THEN /\ RefPut(<<Event("Scanning: ", <<Basename(RefPath)>>, "INFO"),
                         Event("  Could not parse file: ", <<>>, "ERROR")>>)
            /\ ref_faults' = Append(ref_faults, [path |-> RefPath, line |-> 0])
            /\ rpc' = after_except
            /\ UNCHANGED ref_line
       ELSE /\ RefPut(<<Event("Scanning: ", <<Basename(RefPath)>>, "INFO")>>)
            /\ ref_line' = 1
            /\ rpc' = IF RefLines(RefPath) = <<>> THEN "found" ELSE "line"
            /\ UNCHANGED ref_faults
    /\ UNCHANGED <<input_paths, ref_i, doc_references, total_matches, ref_out,
                   ref_runs>>
    /\ UNCHANGED refFrame

\* lines 1204-1214: one turn of `for line in infile`; the read may raise
RefLine(fails) ==
    /\ rpc = "line"
    /\ fails => Len(ref_faults) < MaxRefFaults
    /\ LET line == RefLines(RefPath)[ref_line]
           m == doc_id_regex_match(line)
       IN  IF fails
           THEN /\ RefPut(<<Event("  Could not parse file: ", <<>>, "ERROR")>>)
                /\ ref_faults' = Append(ref_faults, [path |-> RefPath, line |-> ref_line])
                /\ rpc' = after_except
                /\ UNCHANGED <<doc_references, matches_in_file, ref_line>>
           ELSE /\ IF m[1]
                   THEN /\ doc_references' =
                              setdefault(doc_references, m[2],
                                         [title |-> m[3], source |-> Basename(RefPath)])
                        /\ matches_in_file' = matches_in_file + 1
                        /\ UNCHANGED <<log_queue, enqueued, ref_events>>
                   ELSE /\ IF HasDocIdToken(line)
                           THEN RefPut(<<Event("  Skipped line (format mismatch): ",
                                                <<Strip(line)>>, "INFO")>>)
                           ELSE UNCHANGED <<log_queue, enqueued, ref_events>>
                        /\ UNCHANGED <<doc_references, matches_in_file>>
                /\ ref_line' = ref_line + 1
                /\ rpc' = IF ref_line = Len(RefLines(RefPath)) THEN "found" ELSE "line"
                /\ UNCHANGED ref_faults
    /\ UNCHANGED <<input_paths, ref_i, total_matches, ref_out, ref_runs>>
    /\ UNCHANGED refFrame

\* lines 1216-1217, then the next file or the end of the loop
RefFound ==
    /\ rpc = "found"
    /\ total_matches' = total_matches + matches_in_file
    /\ RefPut(<<Event("  Found {} entries", <<Decimal(matches_in_file)>>, "INFO")>>)
    /\ IF ref_i < Len(input_paths)
       THEN ref_i' = ref_i + 1 /\ rpc' = "scan"
       ELSE ref_i' = ref_i /\ rpc' = "final"
    /\ UNCHANGED <<input_paths, ref_line, doc_references, matches_in_file,
                   ref_out, ref_faults, ref_runs>>
    /\ UNCHANGED refFrame

\* lines 1219-1235: nothing found; or the sheet is written and the run is
\* summed up; or opening the sheet raises IOError
RefFinalize(ok) ==
    /\ rpc = "final"
    /\ IF doc_references = <<>>
       THEN /\ ok
            /\ RefPut(<<Event("No valid DocID entries found. Check file format and regex.",
                               <<>>, "ERROR")>>)
            /\ UNCHANGED ref_out
       ELSE IF ok
       THEN /\ ref_out' = ReferenceSheet(sorted_refs(doc_references))
            /\ RefPut(<<Event("--- Finalization ---", <<>>, "HEADER"),
                         Event("Successfully indexed {} unique documents (from {} matches).",
                               <<Decimal(Len(doc_references)), Decimal(total_matches)>>,
                               "SUCCESS")>>)
       ELSE /\ RefPut(<<Event("FATAL I/O ERROR: ", <<>>, "ERROR")>>)
            /\ UNCHANGED ref_out
    /\ rpc' = "done"
    /\ UNCHANGED <<input_paths, ref_i, ref_line, doc_references, matches_in_file,
                   total_matches, ref_faults, ref_runs>>
    /\ UNCHANGED refFrame

\* file names and extensions of the MOBI extractor, as code points
F_HTML == <<97,46,104,116,109,108>>    \* a.html
F_HTM == <<66,46,72,84,77>>    \* B.HTM
F_TXT == <<99,46,116,120,116>>    \* c.txt
F_JPG == <<100,46,106,112,103>>    \* d.jpg
EXT_HTML == <<46,104,116,109,108>>    \* .html
EXT_HTM == <<46,104,116,109>>    \* .htm
EXT_TXT == <<46,116,120,116>>    \* .txt

(***************************************************************************)
(* extract_text_from_mobi (lines 416-433): the archive is unpacked into a  *)
(* scratch directory, the text parts in it are read, the directory is      *)
(* removed in the finally clause.                                          *)
(***************************************************************************)
\* names of files an unpacked archive can hold
MobiFiles == { F_HTML, F_HTM, F_TXT, F_JPG }

\* what mobi.extract can leave in the scratch directory: up to
\* MaxScratch files, in the order os.walk lists them
ScratchContents ==
    {c \in UNION {[1..n -> MobiFiles] : n \in 0..MaxScratch} :
        \A i, j \in 1..Len(c) : i # j => c[i] # c[j]}

\* temp_dir = None; no directory on disk
None == <<"None">>

\* line 423: file.lower().endswith(('.html', '.htm', '.txt'))
IsTextPart(file) ==
    \E ext \in {EXT_HTML, EXT_HTM, EXT_TXT} : EndsWith(LowerSeq(file), ext)

\* lines 431-433: the finally clause, on the local temp_dir and the
\* directory on disk; raised tells whether an exception is passing through.
\* shutil.rmtree is taken to remove the tree
finally_rmtreeMutant(td, dir, raised) == IF ~raised /\ td # None /\ dir # None THEN None ELSE dir
finally_rmtree(td, dir, raised) == IF td # None /\ dir # None THEN None ELSE dir

MobiIdle ==
    /\ mpc = "idle" /\ temp_dir = None /\ scratch = None /\ m_i = 0
    /\ parts = <<>> /\ m_result = "none"

\* lines 416-418: a call
mobi_call ==
    /\ mpc \in {"idle", "returned", "raised"}
    /\ temp_dir' = None
    /\ scratch' = None           \* the scratch directory of this call
    /\ m_i' = 0 /\ parts' = <<>> /\ m_result' = "none"
    /\ mpc' = "extract"
    /\ UNCHANGED <<baseVars, notMobi>>

\* line 419: mobi.extract raises, and temp_dir stays None; or it returns the
\* directory it has made and filled
mobi_extract(raises, contents) ==
    /\ mpc = "extract"
    /\ IF raises
       THEN /\ contents = <<>>
            /\ mpc' = "except"
            /\ UNCHANGED <<temp_dir, scratch, m_i>>
       ELSE /\ temp_dir' = <<"mobiex">>
            /\ scratch' = contents
            /\ m_i' = 1
            /\ mpc' = "walk"
    /\ UNCHANGED <<parts, m_result>>
    /\ UNCHANGED <<baseVars, notMobi>>

\* lines 421-425: one file of the walk; reading a text part may raise
mobi_part(raises) ==
    /\ mpc = "walk" /\ m_i <= Len(scratch)
    /\ IF IsTextPart(scratch[m_i])
       THEN IF raises
            THEN mpc' = "except" /\ UNCHANGED <<parts, m_i>>
            ELSE /\ parts' = Append(parts, scratch[m_i])
                 /\ m_i' = m_i + 1
                 /\ UNCHANGED mpc
       ELSE /\ ~raises
            /\ m_i' = m_i + 1
            /\ UNCHANGED <<parts, mpc>>
    /\ UNCHANGED <<temp_dir, scratch, m_result>>
    /\ UNCHANGED <<baseVars, notMobi>>

\* lines 426-428: after the walk: no parts raises ExtractionError, else the
\* joined text is the value to return
mobi_join ==
    /\ mpc = "walk" /\ m_i > Len(scratch)
    /\ IF parts = <<>>
       THEN mpc' = "except" /\ UNCHANGED m_result
       ELSE mpc' = "finally" /\ m_result' = "text"
    /\ UNCHANGED <<temp_dir, scratch, m_i, parts>>
    /\ UNCHANGED <<baseVars, notMobi>>

\* lines 429-430: any exception leaves as an ExtractionError
mobi_except ==
    /\ mpc = "except"
    /\ m_result' = "ExtractionError"
    /\ mpc' = "finally"
    /\ UNCHANGED <<temp_dir, scratch, m_i, parts>>
    /\ UNCHANGED <<baseVars, notMobi>>

\* lines 431-433: the finally clause; then the call returns or raises
mobi_finally ==
    /\ mpc = "finally"
    /\ scratch' = finally_rmtree(temp_dir, scratch, m_result = "ExtractionError")
    /\ mpc' = IF m_result = "text" THEN "returned" ELSE "raised"
    /\ UNCHANGED <<temp_dir, m_i, parts, m_result>>
    /\ UNCHANGED <<baseVars, notMobi>>

(***************************************************************************)
(* iter_files (lines 172-180) step by step: os.walk top down, one          *)
(* directory at a time, over a tree with nested directories.               *)
(***************************************************************************)
\* the files of the tree, by their root-relative paths; l/ is a link (SymlinkDirs)
WalkTree == {
    <<114,46,116,120,116>>,
    <<98,117,105,108,100,47,120,46,116,120,116>>,
    <<98,117,105,108,100,47,115,117,98,47,119,46,116,120,116>>,
    <<97,47,98,117,105,108,100,47,121,46,116,120,116>>,
    <<97,47,107,46,116,120,116>>,
    <<98,117,105,108,100,117,112,47,122,46,116,120,116>>,
    <<108,47,115,46,116,120,116>> }
\* r.txt  build/x.txt  build/sub/w.txt  a/build/y.txt  a/k.txt  buildup/z.txt  l/s.txt

\* rules of the rule list
RULE_BUILD == <<98,117,105,108,100,47>>    \* build/
RULE_A == <<97,47>>    \* a/
RULE_SUB == <<115,117,98,47>>    \* sub/
RULE_K == <<107,46,116,120,116>>    \* k.txt
RULE_STAR == <<98,42>>    \* b*
RULE_Z == <<98,117,105,108,100,117,112,47,122,46,116,120,116>>    \* buildup/z.txt
WalkRules == { RULE_BUILD, RULE_A, RULE_SUB, RULE_K, RULE_STAR, RULE_Z }

\* the rule lists: up to MaxRules rules
RuleLists == UNION {[1..n -> WalkRules] : n \in 0..MaxRules}

\* the directories of the tree, as norm_for_match writes them
WalkDirs == UNION {AncestorDirs(f) : f \in WalkTree}

\* the entries os.walk lists for directory cur (<<>> is the root)
ChildDirs(cur) ==
    {d \in WalkDirs : StartsWith(d, cur) /\ Len(d) > Len(cur)
                      /\ AncestorDirs(d) = AncestorDirs(cur) \cup {d}}
ChildFiles(cur) == {f \in WalkTree : AncestorDirs(f) = AncestorDirs(cur)}

\* sorted(...) of a set of paths under one directory
RECURSIVE SortedPaths(_)
SortedPaths(S) ==
    IF S = {} THEN <<>>
    ELSE LET x == CHOOSE y \in S : \A z \in S \ {y} : SeqLess(y, z)
         IN <<x>> \o SortedPaths(S \ {x})

\* line 175: the directories that stay in dirs
kept_dirsMutant(cur, patterns) == SortedPaths(ChildDirs(cur))
kept_dirs(cur, patterns) ==
    SortedPaths({d \in ChildDirs(cur) : ~should_ignore(DirName(d), d, patterns)})

\* lines 176-180: the files of cur that are yielded, in their order
yielded_files(cur, patterns) ==
    SortedPaths({f \in ChildFiles(cur) : ~should_ignore(Basename(f), f, patterns)})

\* os.walk: the directories of dirs it goes on to visit
Descend(dirs, follow) == SelectSeq(dirs, LAMBDA d : follow \/ d \notin SymlinkDirs)

WalkIdle ==
    /\ w_patterns = <<>> /\ w_follow = FALSE /\ w_stack = <<>> /\ w_yielded = <<>>

\* a call iter_files(root, patterns, follow_symlinks), before its first step
InitWalkArgs ==
    /\ w_patterns \in RuleLists
    /\ w_follow \in BOOLEAN
    /\ w_stack = << <<>> >>
    /\ w_yielded = <<>>

\* one turn of the loop of line 173: the next directory of the walk
walk_dir ==
    /\ w_stack # <<>>
    /\ LET cur == Head(w_stack)
       IN  /\ w_yielded' = w_yielded \o yielded_files(cur, w_patterns)
           /\ w_stack' = Descend(kept_dirs(cur, w_patterns), w_follow) \o Tail(w_stack)
    /\ UNCHANGED <<w_patterns, w_follow>>
    /\ UNCHANGED <<baseVars, notWalk>>

(***************************************************************************)
(* The rule list of a bundle run (lines 823-828) and should_ignore under   *)
(* it, for any content of the project's ignore file.                       *)
(***************************************************************************)
\* lines that the ignore file can hold
GI_NOT_BUILD == <<33,98,117,105,108,100,47>>    \* '!build/'
GI_NOT_PYC == <<33,42,46,112,121,99>>    \* '!*.pyc'
GI_COMMENT == <<35,32,108,111,99,97,108>>    \* '# local'
GI_BLANK == <<32,32>>    \* '  '
GI_SRC == <<32,115,114,99,47,32,10>>    \* ' src/ \n'
GI_TXT == <<42,46,116,120,116,10>>    \* '*.txt\n'
IgnoreFileLines == { GI_NOT_BUILD, GI_NOT_PYC, GI_COMMENT, GI_BLANK, GI_SRC, GI_TXT }

\* root-relative paths as norm_for_match writes them (directories end with '/')
P_BUILD_X == <<98,117,105,108,100,47,120,46,112,121>>    \* build/x.py
P_PYC == <<115,114,99,47,97,46,112,121,99>>    \* src/a.pyc
P_SRC_A == <<115,114,99,47,97,46,112,121>>    \* src/a.py
P_NOTE == <<110,111,116,101,46,116,120,116>>    \* note.txt
P_GIT_DIR == <<46,103,105,116,47>>    \* .git/
P_SRC_DIR == <<115,114,99,47>>    \* src/
P_BANG == <<33,98,117,105,108,100,47>>    \* !build/
RulePaths == { P_BUILD_X, P_PYC, P_SRC_A, P_NOTE, P_GIT_DIR, P_SRC_DIR, P_BANG }

\* the contents of the ignore file: up to MaxLines lines
IgnoreFiles == UNION {[1..n -> IgnoreFileLines] : n \in 0..MaxLines}

\* read_gitignore_patterns (lines 117-129) on a file with these lines, of
\* which n are read before the read raises (all of them if it does not):
\* the stripped lines that are neither empty nor comments
gitignore_patterns(lines, n) ==
    LET stripped == [i \in 1..n |-> Strip(lines[i])]
    IN SelectSeq(stripped, LAMBDA l : l # <<>> /\ Head(l) # 35)

\* lines 823-828: the defaults, then the rules of the ignore file, then the
\* names of the output file and of the script
assemble_patternsMutant(file_rules) ==
    SelectSeq(DEFAULT_IGNORE,
              LAMBDA d : \A k \in 1..Len(file_rules) : file_rules[k] # <<33>> \o d)
        \o file_rules \o <<OutputName, ScriptName>>
assemble_patterns(file_rules) == DEFAULT_IGNORE \o file_rules \o <<OutputName, ScriptName>>

\* path.name of a path written by norm_for_match
PathName(rel) ==
    IF EndsWith(rel, <<47>>) THEN DirName(rel) ELSE Basename(rel)

RuleIdle ==
    /\ ig_lines = <<>> /\ ig_read = 0 /\ ig_path = <<>> /\ ig_rules = <<>>
    /\ ig_default = FALSE /\ ig_merged = FALSE /\ ig_pc = "idle"

\* an ignore file, the point where reading it fails if it does, and a path
InitRuleArgs ==
    /\ ig_lines \in IgnoreFiles
    /\ ig_read \in 0..MaxLines /\ ig_read <= Len(ig_lines)
    /\ ig_path \in RulePaths
    /\ ig_rules = <<>> /\ ig_default = FALSE /\ ig_merged = FALSE
    /\ ig_pc = "rules"

\* lines 823-828: the rule list of the run
assemble_rules ==
    /\ ig_pc = "rules"
    /\ ig_rules' = assemble_patterns(gitignore_patterns(ig_lines, ig_read))
    /\ ig_pc' = "match"
    /\ UNCHANGED <<ig_lines, ig_read, ig_path, ig_default, ig_merged>>
    /\ UNCHANGED <<baseVars, notRule>>

\* should_ignore on the path, under the defaults alone and under the list
apply_should_ignore ==
    /\ ig_pc = "match"
    /\ ig_default' = should_ignore(PathName(ig_path), ig_path, DEFAULT_IGNORE)
    /\ ig_merged' = should_ignore(PathName(ig_path), ig_path, ig_rules)
    /\ ig_pc' = "done"
    /\ UNCHANGED <<ig_lines, ig_read, ig_path, ig_rules>>
    /\ UNCHANGED <<baseVars, notRule>>

(***************************************************************************)
(* process_single_file (lines 467-483) on the text an extractor returned,  *)
(* for texts shorter and longer than the sample of 2000 characters.        *)
(***************************************************************************)
\* extracted texts: two characters; 2000 characters; 2001 characters that
\* differ in the last one; 6002 characters that differ in character 2001
\* alone, which lies between the first and the middle slice of the sample
T_HI == <<104,105>>
T_2000 == [i \in 1..2000 |-> 97]
T_2001B == [i \in 1..2001 |-> IF i = 2001 THEN 98 ELSE 97]
T_2001C == [i \in 1..2001 |-> IF i = 2001 THEN 99 ELSE 97]
T_6002 == [i \in 1..6002 |-> 97 + (i % 3)]
T_6002X == [i \in 1..6002 |-> IF i = 2001 THEN 120 ELSE 97 + (i % 3)]
DocTexts == { T_HI, T_2000, T_2001B, T_2001C, T_6002, T_6002X }

\* where the documents are stored: two files of one name, one of another
StoredAt == { <<65,47,120,46,116,120,116>>,    \* A/x.txt
              <<66,47,120,46,116,120,116>>,    \* B/x.txt
              <<65,47,121,46,109,100>> }       \* A/y.md

DocInputs == [path : StoredAt, text : DocTexts]
NoDoc == [path |-> <<>>, text |-> <<>>]

\* lines 437, 467-483 for a plain-text file whose extractor returned text
encode(doc, prefix) ==
    AfterExtraction(normalize_title_from_path(doc.path), <<FALSE, doc.text>>, prefix)

DocIdle ==
    /\ doc_a = NoDoc /\ doc_b = NoDoc /\ doc_prefix = <<>>
    /\ res_a = Failure("") /\ res_b = Failure("") /\ dpc = "idle"

\* a first document and the prefix of the run
InitDocArgs ==
    /\ doc_a \in DocInputs
    /\ doc_b = NoDoc
    /\ doc_prefix = <<68,79,67>>
    /\ res_a = Failure("") /\ res_b = Failure("")
    /\ dpc = "first"

encode_first ==
    /\ dpc = "first"
    /\ res_a' = encode(doc_a, doc_prefix)
    /\ dpc' = "second"
    /\ UNCHANGED <<doc_a, doc_b, doc_prefix, res_b>>
    /\ UNCHANGED <<baseVars, notDoc>>

encode_second(doc) ==
    /\ dpc = "second"
    /\ doc_b' = doc
    /\ res_b' = encode(doc, doc_prefix)
    /\ dpc' = "done"
    /\ UNCHANGED <<doc_a, doc_prefix, res_a>>
    /\ UNCHANGED <<baseVars, notDoc>>

(***************************************************************************)
(* IDManager.generate_short_id (lines 359-367) called twice.                *)
(***************************************************************************)
\* the first 12 hex digits of the hashes tried
HashHeads == {
    <<48,48,48,48,48,48,48,48,48,48,48,48>>,
    <<48,48,48,48,48,48,48,48,48,48,48,49>>,
    <<102,102,102,102,102,102,102,102,102,102,102,102>>,
    <<48,48,48,48,48,48,48,48,102,102,102,102>>,
    <<48,49,50,51,52,53,54,55,56,57,97,98>>,
    <<48,48,48,48,48,51,102,102,102,102,102,102>>,
    <<48,48,48,48,48,97,48,48,48,48,48,48>>,
    <<100,101,97,100,98,101,101,102,48,48,52,50>> }
\* 000000000000 000000000001 ffffffffffff 00000000ffff 0123456789ab 000003ffffff 00000a000000 deadbeef0042

\* a well-formed full hash with that head: sha256- and 64 hex digits
FullHash(head) == SHA_PREFIX \o head \o [i \in 1..52 |-> HexChar((i * 7) % 16)]

ShortIdPrefixes == { <<>>, <<68,79,67>>, <<75,57>> }     \* "", DOC, K9
ShortIdLengths == {0, 4, 6, 10, 12}

SidIdle ==
    /\ sid_hash = <<>> /\ sid_prefix = <<>> /\ sid_length = 0
    /\ sid_first = <<>> /\ sid_second = <<>> /\ sid_calls = 2

\* the arguments of the two calls
InitSidArgs ==
    /\ sid_hash \in {FullHash(h) : h \in HashHeads}
    /\ sid_prefix \in ShortIdPrefixes
    /\ sid_length \in ShortIdLengths
    /\ sid_first = <<>> /\ sid_second = <<>> /\ sid_calls = 0

short_id_first ==
    /\ sid_calls = 0
    /\ sid_first' = generate_short_id(sid_hash, sid_prefix, sid_length)
    /\ sid_calls' = 1
    /\ UNCHANGED <<sid_hash, sid_prefix, sid_length, sid_second>>
    /\ UNCHANGED <<baseVars, notSid>>

short_id_second ==
    /\ sid_calls = 1
    /\ sid_second' = generate_short_id(sid_hash, sid_prefix, sid_length)
    /\ sid_calls' = 2
    /\ UNCHANGED <<sid_hash, sid_prefix, sid_length, sid_first>>
    /\ UNCHANGED <<baseVars, notSid>>

(***************************************************************************)
(* normalize_text_code_safe (lines 297-311) called on a text.              *)
(***************************************************************************)
\* the pieces the texts are made of: prose with two spaces inside, the
\* fence, the two sentinels, two spaces, a carriage return, a newline
NormTokens ==
    { <<120,32,32,121>>, FENCE, CODE_START, CODE_END, <<32,32>>, <<13>>, <<10>> }

RECURSIVE Flatten(_)
Flatten(ts) == IF ts = <<>> THEN <<>> ELSE Head(ts) \o Flatten(Tail(ts))

NormTexts ==
    {Flatten(ts) : ts \in UNION {[1..n -> NormTokens] : n \in 0..MaxTokens}}

NormIdle == norm_in = <<>> /\ norm_out = <<>> /\ norm_done = TRUE

InitNormArgs == norm_in \in NormTexts /\ norm_out = <<>> /\ norm_done = FALSE

normalize_call ==
    /\ ~norm_done
    /\ norm_out' = normalize_text_code_safe(norm_in)
    /\ norm_done' = TRUE
    /\ UNCHANGED norm_in
    /\ UNCHANGED <<baseVars, notNorm>>

(***************************************************************************)
(* A line of the table of contents (line 1146) read back by the pattern of  *)
(* the reference indexer (lines 1195-1209).                                 *)
(***************************************************************************)
\* the documents tried, each holding the text "hi"
TocPaths == {
    <<65,47,109,121,32,100,111,99,46,116,120,116>>,
    <<65,47,97,95,98,45,99,46,109,100>>,
    <<65,47,120,46,116,120,116>>,
    <<65,47,64,46,116,120,116>>,
    <<65,47,91,49,93,46,116,120,116>>,
    <<65,47,105,116,39,115,32,40,118,50,41,46,116,120,116>>,
    <<65,47,82,38,68,44,32,50,48,50,52,46,116,120,116>>,
    <<65,47,35,35,35,46,109,100>>,
    <<65,47,97,32,32,98,46,116,120,116>>,
    <<65,47,110,111,116,101,115,46,102,105,110,97,108,46,116,120,116>> }
\* A/my doc.txt | A/a_b-c.md | A/x.txt | A/@.txt | A/[1].txt | A/it's (v2).txt | A/R&D, 2024.txt | A/###.md | A/a  b.txt | A/notes.final.txt

\* the prefixes typed into the dialog of start_processing
TocPrefixes == { <<68,79,67>>, <<100,45,49>>, <<>>, <<107,57>> }     \* DOC, d-1, (nothing), k9

TocIdle ==
    /\ toc_path = <<>> /\ toc_typed = <<>> /\ toc_doc = Failure("")
    /\ toc_line = <<>> /\ toc_refs = <<>> /\ toc_pc = "done"

InitTocArgs ==
    /\ toc_path \in TocPaths /\ toc_typed \in TocPrefixes
    /\ toc_doc = Failure("") /\ toc_line = <<>> /\ toc_refs = <<>>
    /\ toc_pc = "extract"

\* process_single_file on the document, under the sanitized prefix
toc_extract ==
    /\ toc_pc = "extract"
    /\ toc_doc' = encode([path |-> toc_path, text |-> T_HI],
                         SanitizePrefix(toc_typed))
    /\ toc_pc' = IF toc_doc'.ok THEN "write" ELSE "done"
    /\ UNCHANGED <<toc_path, toc_typed, toc_line, toc_refs>>
    /\ UNCHANGED <<baseVars, notToc>>

\* line 1146: the line of the document in the table of contents
toc_write ==
    /\ toc_pc = "write"
    /\ toc_line' = TocLine(toc_doc.short_id, toc_doc.full_hash, toc_doc.title)
    /\ toc_pc' = "index"
    /\ UNCHANGED <<toc_path, toc_typed, toc_doc, toc_refs>>
    /\ UNCHANGED <<baseVars, notToc>>

\* lines 1204-1209: the indexer on that line
toc_index ==
    /\ toc_pc = "index"
    /\ LET m == doc_id_regex_match(toc_line)
       IN toc_refs' = IF m[1]
                      THEN setdefault(toc_refs, m[2],
                                      [title |-> m[3], source |-> toc_path])
                      ELSE toc_refs
    /\ toc_pc' = "done"
    /\ UNCHANGED <<toc_path, toc_typed, toc_doc, toc_line>>
    /\ UNCHANGED <<baseVars, notToc>>

\* _check_log_queue with line 1390 left out: the buttons come back on the
\* first empty queue
check_log_queueMutant ==
    /\ polling
    /\ saw_empty \/ log_queue = <<>>
    /\ ui_enabled' = TRUE /\ polling' = FALSE /\ progress' = 0
    /\ saw_empty' = FALSE
    /\ UNCHANGED <<uiVars, envVars, workerVars, histVars, failVars, rootVars, edits>>
    /\ UNCHANGED <<knowVars, idVars>>
    /\ UNCHANGED <<log_queue, log_display, enqueued, delivered, producer, puts>>
    /\ UNCHANGED otherVars

(***************************************************************************)
(* _check_log_queue, lines 1390-1394, after the loop was left on an empty  *)
(* queue: re-arms itself while the thread is alive, re-enables the buttons *)
(* and resets the bar once it is not.                                      *)
(***************************************************************************)
check_log_queue ==
    /\ polling
    /\ saw_empty \/ log_queue = <<>>
    /\ IF ThreadAlive
       THEN UNCHANGED <<ui_enabled, polling, progress>>
       ELSE ui_enabled' = TRUE /\ polling' = FALSE /\ progress' = 0
    /\ saw_empty' = FALSE
    /\ UNCHANGED <<uiVars, envVars, workerVars, histVars, failVars, rootVars, edits>>
    /\ UNCHANGED <<knowVars, idVars>>
    /\ UNCHANGED <<log_queue, log_display, enqueued, delivered, producer, puts>>
    /\ UNCHANGED otherVars

(***************************************************************************)
(* The id assignment loop (lines 844-849) on file counts of any size.      *)
(***************************************************************************)
\* numbers of files found by the walk
IdCounts == {1, 9, 10, 99, 100, 9999, 10000, 10001, 99999, 100000}

\* the positions of enumerate(files, 1) that the model visits
IdPositions(n) ==
    {i \in {1, 2, 9, 10, 99, 100, 999, 1000, 9999, 10000, 10001, n - 1, n} :
        1 <= i /\ i <= n}

NoId == [i |-> 0, id |-> <<>>]

IdsIdle ==
    /\ id_n = 0 /\ id_typed = <<>> /\ id_i = 0 /\ id_cur = <<>> /\ id_prev = NoId

InitIds ==
    /\ id_n \in IdCounts
    /\ id_typed \in IdPrefixes
    /\ id_i = 0 /\ id_cur = <<>> /\ id_prev = NoId

\* file_ids[p] = file_id(i) for the file at position j
AssignId(j) ==
    /\ j \in IdPositions(id_n) /\ j > id_i
    /\ id_prev' = [i |-> id_i, id |-> id_cur]
    /\ id_i' = j
    /\ id_cur' = file_id(j, EffectivePrefix(id_typed), IdWidth(id_n))
    /\ UNCHANGED <<id_n, id_typed>>
    /\ UNCHANGED <<bundleVars, knowVars>>
    /\ UNCHANGED <<logVars, otherVars>>

(***************************************************************************)
(* Specifications.                                                         *)
(***************************************************************************)
vars == <<bundleVars, knowVars, idVars, logVars, otherVars>>

\* one fixed tree, for the specifications that do not bundle
FixedTree == fsize = [p \in TreeFiles |-> 1]

NextBundle ==
    \/ \E v \in SortModes : SetSortMode(v)
    \/ \E v \in IdPrefixes : SetIdPrefix(v)
    \/ ToggleFollowSymlinks
    \/ \E v \in GuideModes : SetGuide(v)
    \/ \E v \in 0..MaxCap : SetMaxBytesPerFile(v)
    \/ \E v \in 0..MaxTotal : SetMaxTotalBytes(v)
    \/ \E p \in VaryingFiles : \E n \in 0..MaxSize : EnvResize(p, n)
    \/ start_code_bundling
    \/ check_log_queue
    \/ Prepare
    \/ Meta
    \/ Open
    \/ Section
    \/ Finish

NextKnow ==
    \/ \E f \in DocPaths : add_files(f)
    \/ \E n \in 1..MaxChunk : \E typed \in PrefixInputs : start_processing(n, typed)
    \/ check_log_queue
    \/ KSort
    \/ KSubmit
    \/ \E q \in DocPaths : \E died \in BOOLEAN : KComplete(q, died)
    \/ KWrite
    \/ KSummary

NextIds == \E j \in IdPositions(id_n) : AssignId(j)

NextCaps ==
    \/ \E p \in VaryingFiles : \E n \in 0..MaxSize : EnvResize(p, n)
    \/ start_code_bundling
    \/ check_log_queue
    \/ Prepare
    \/ Meta
    \/ Open
    \/ Section
    \/ Finish

NextFaults ==
    \/ start_code_bundling
    \/ check_log_queue
    \/ Prepare
    \/ Meta
    \/ Open
    \/ Section
    \/ Finish

NextRoot ==
    \/ \E k \in RootKinds : EnvRoot(k)
    \/ \E v \in SortModes : SetSortMode(v)
    \/ start_code_bundling
    \/ check_log_queue
    \/ Prepare
    \/ Meta
    \/ Open
    \/ Section
    \/ Finish

\* the three start buttons, their workers and the poll; one document and
\* one knowledge file at a time
NextWorkers ==
    \/ start_code_bundling
    \/ Prepare
    \/ Meta
    \/ Open
    \/ Section
    \/ Finish
    \/ add_files(<<65,47,120,46,116,120,116>>)
    \/ start_processing(1, <<68,79,67>>)
    \/ KSort
    \/ KSubmit
    \/ \E q \in DocPaths : KComplete(q, FALSE)
    \/ KWrite
    \/ KSummary
    \/ start_reference_sheet_creation(<<K3>>)
    \/ RefBegin
    \/ RefScan(FALSE)
    \/ RefLine(FALSE)
    \/ RefFound
    \/ RefFinalize(TRUE)
    \/ poll_get
    \/ poll_empty
    \/ check_log_queue

NextLog ==
    \/ start_worker_thread
    \/ \E e \in ProducerEvents : worker_put(e)
    \/ worker_exit
    \/ poll_get
    \/ poll_empty
    \/ check_log_queue

NextRef ==
    \/ \E sel \in RefSelections : start_reference_sheet_creation(sel)
    \/ RefBegin
    \/ \E fails \in BOOLEAN : RefScan(fails)
    \/ \E fails \in BOOLEAN : RefLine(fails)
    \/ RefFound
    \/ \E ok \in BOOLEAN : RefFinalize(ok)
    \/ poll_get
    \/ poll_empty
    \/ check_log_queue

NextMobi ==
    \/ mobi_call
    \/ \E raises \in BOOLEAN : \E contents \in ScratchContents :
          mobi_extract(raises, contents)
    \/ \E raises \in BOOLEAN : mobi_part(raises)
    \/ mobi_join
    \/ mobi_except
    \/ mobi_finally

NextWalk == walk_dir

NextRule == assemble_rules \/ apply_should_ignore

NextDoc == encode_first \/ \E doc \in DocInputs : encode_second(doc)

NextSid == short_id_first \/ short_id_second

NextNorm == normalize_call

NextToc == toc_extract \/ toc_write \/ toc_index

\* the components of the model that a specification does not run
OtherIdle == RefIdle /\ MobiIdle /\ WalkIdle /\ RuleIdle /\ DocIdle /\ SidIdle /\ NormIdle /\ TocIdle

\* the session as constructed
Init == InitBundle /\ InitKnow /\ IdsIdle /\ LogIdle /\ OtherIdle

\* the session with small caps typed into the two entries
InitCaps == TypedCaps /\ Reliable /\ InitBundleTab /\ InitKnow /\ IdsIdle /\ LogIdle /\ OtherIdle

\* the session on one fixed tree
InitFixed == InitBundle /\ FixedTree /\ InitKnow /\ IdsIdle /\ LogIdle /\ OtherIdle

\* the session with small caps typed in, on the fixed tree with files that
\* cannot always be read
InitFaults ==
    TypedCaps /\ Unreliable /\ FixedTree /\ InitBundleTab /\ InitKnow /\ IdsIdle
    /\ LogIdle /\ OtherIdle

\* the session on the fixed tree, with a project root of any kind
InitRoot ==
    DefaultCaps /\ AnyRoot /\ FixedTree /\ InitBundleTab /\ InitKnow /\ IdsIdle
    /\ LogIdle /\ OtherIdle

\* the id assignment on a number of files and a prefix
InitIdsOnly == InitBundle /\ FixedTree /\ InitKnow /\ InitIds /\ LogIdle /\ OtherIdle

\* the code bundler tab
SpecBundle == Init /\ [][NextBundle]_vars

\* the code bundler tab with small caps typed in, the other widgets untouched
SpecCaps == InitCaps /\ [][NextCaps]_vars

\* the code bundler tab on a tree with files that cannot always be read
SpecFaults == InitFaults /\ [][NextFaults]_vars

\* the code bundler tab with a project root that may be no directory
SpecRoot == InitRoot /\ [][NextRoot]_vars

\* the three tabs in one session
SpecWorkers == InitFixed /\ [][NextWorkers]_vars

\* root.after (lines 1363 and 1391) runs the callback again, and the loop
\* of the callback goes on while it is in it
SpecWorkersFair ==
    /\ InitFixed
    /\ [][NextWorkers]_vars
    /\ WF_vars(poll_get)
    /\ WF_vars(poll_empty)
    /\ WF_vars(check_log_queue)

\* the knowledge encoder tab
SpecKnow == InitFixed /\ [][NextKnow]_vars

\* the id assignment alone
SpecIds == InitIdsOnly /\ [][NextIds]_vars

\* the channel, with a worker that puts any events
SpecLog == InitFixed /\ [][NextLog]_vars

\* the reference sheet tab
SpecRef == InitFixed /\ [][NextRef]_vars

\* a traversal of the tree under some rule list
InitWalk ==
    InitBundle /\ FixedTree /\ InitKnow /\ IdsIdle /\ LogIdle /\ RefIdle
    /\ MobiIdle /\ InitWalkArgs /\ RuleIdle /\ DocIdle /\ SidIdle
    /\ TocIdle
    /\ NormIdle

SpecWalk == InitWalk /\ [][NextWalk]_vars

\* the rule list of a run tried on a path
InitRule ==
    InitBundle /\ FixedTree /\ InitKnow /\ IdsIdle /\ LogIdle /\ RefIdle
    /\ MobiIdle /\ WalkIdle /\ InitRuleArgs /\ DocIdle /\ SidIdle
    /\ TocIdle
    /\ NormIdle

SpecRule == InitRule /\ [][NextRule]_vars

\* two documents encoded under one prefix
InitDoc ==
    InitBundle /\ FixedTree /\ InitKnow /\ IdsIdle /\ LogIdle /\ RefIdle
    /\ MobiIdle /\ WalkIdle /\ RuleIdle /\ InitDocArgs /\ SidIdle
    /\ TocIdle
    /\ NormIdle

SpecDoc == InitDoc /\ [][NextDoc]_vars

\* a hash, a prefix and a length, and two calls on them
InitSid ==
    InitBundle /\ FixedTree /\ InitKnow /\ IdsIdle /\ LogIdle /\ RefIdle
    /\ MobiIdle /\ WalkIdle /\ RuleIdle /\ DocIdle /\ InitSidArgs
    /\ TocIdle
    /\ NormIdle

SpecSid == InitSid /\ [][NextSid]_vars

\* a text normalized
InitNorm ==
    InitBundle /\ FixedTree /\ InitKnow /\ IdsIdle /\ LogIdle /\ RefIdle
    /\ MobiIdle /\ WalkIdle /\ RuleIdle /\ DocIdle /\ SidIdle
    /\ TocIdle
    /\ InitNormArgs

SpecNorm == InitNorm /\ [][NextNorm]_vars

\* a document written to a table of contents and read back
InitToc ==
    InitBundle /\ FixedTree /\ InitKnow /\ IdsIdle /\ LogIdle /\ RefIdle
    /\ MobiIdle /\ WalkIdle /\ RuleIdle /\ DocIdle /\ SidIdle
    /\ NormIdle /\ InitTocArgs

SpecToc == InitToc /\ [][NextToc]_vars

\* calls of the MOBI extractor
SpecMobi == InitFixed /\ [][NextMobi]_vars

(***************************************************************************)
(* Properties of the code bundler.                                         *)
(***************************************************************************)
\* the sections of the bundle that embed content / that were skipped for the
\* total cap
ContentSections == {i \in 1..Len(out.sections) : out.sections[i].kind = "content"}
LimitSections == {i \in 1..Len(out.sections) : out.sections[i].kind = "limit"}

\* C1: with non-negative caps, no section embeds more than C bytes of its
\* file, and the running total of embedded bytes never exceeds T, in every
\* state of the write loop
C1_BudgetCaps ==
    (args.C >= 0 /\ args.T >= 0) =>
        /\ written_total <= args.T
        /\ \A i \in 1..Len(out.sections) : out.sections[i].bytes <= args.C

\* a finished bundle in which a file was cut down to C bytes, the total
\* reached T exactly and a file was skipped for the total cap
C1_Witness ==
    /\ bpc = "done"
    /\ args.C > 0 /\ written_total = args.T
    /\ \E i \in ContentSections :
          /\ out.sections[i].bytes = args.C
          /\ fsize[out.sections[i].path] > args.C
    /\ LimitSections # {}

\* C2: once a file has been skipped for the total cap, every later section
\* carries the same skip note and embeds nothing
C2_AllLaterSkipped ==
    \A i \in LimitSections : \A j \in 1..Len(out.sections) :
        j > i => out.sections[j].kind = "limit" /\ out.sections[j].bytes = 0

\* two completed runs of one session, the second on the configuration and
\* the tree of the first: no widget was edited and no file was rewritten
\* since the first run was started
SameRunTwice ==
    /\ bpc = "done" /\ prev_run.valid
    /\ prev_run.edits0 = edits
    /\ prev_run.epoch0 = epoch

\* a bundle without the time of its "# Generated:" header line
WithoutStamp(b) == [b EXCEPT !.stamp = 0]

\* C3 as stated: two runs over an unchanged tree with identical
\* configuration write identical files, header lines included
C3_ByteIdentical == SameRunTwice => out = prev_run.out

\* C3: two runs over an unchanged tree with identical configuration write
\* files that are identical but for the time in the "# Generated:" line
C3_IdenticalButStamp == SameRunTwice => WithoutStamp(out) = WithoutStamp(prev_run.out)

\* the second run of the pair was written a second later than the first
C3_Witness ==
    /\ SameRunTwice
    /\ out.sections # <<>>
    /\ out.stamp # prev_run.out.stamp

\* the id that the index of bundle b gives to path q (<<>> if none)
IdOf(b, q) ==
    LET hits == {i \in 1..Len(b.index) : b.index[i].path = q}
    IN IF hits = {} THEN <<>> ELSE b.index[CHOOSE i \in hits : TRUE].id

PathsOf(b) == {b.index[i].path : i \in 1..Len(b.index)}

\* C5: two runs with the same id prefix and the same sort mode over trees
\* with the same set of paths give every path the same id, whatever the
\* sizes of the files
C5_IdsStable ==
    (/\ bpc = "done" /\ prev_run.valid
     /\ prev_run.prefix = id_prefix
     /\ prev_run.sort = sort_mode
     /\ PathsOf(prev_run.out) = PathsOf(out))
    => \A q \in PathsOf(out) : IdOf(out, q) = IdOf(prev_run.out, q)

\* the bundle that the configuration at the start of the run asks for, on
\* the tree as it is: order, ids and guide
AskedOrder ==
    SortFiles(iter_files(ignore_patterns, cfg_at_start.follow), cfg_at_start.sort, fsize)

\* C10: a widget edited after the run was started does not change the
\* bundle: on an unchanged tree its guide, its order and its ids are those of
\* the configuration at the start
C10_EditsAfterStartIgnored ==
    (bpc = "done" /\ epoch = epoch_at_start) =>
        /\ out.guide = render_llm_usage_guide(cfg_at_start.guide)
        /\ [i \in 1..Len(out.index) |-> out.index[i].path] = AskedOrder
        /\ \A i \in 1..Len(out.index) :
              out.index[i].id = file_id(i, EffectivePrefix(cfg_at_start.prefix),
                                        IdWidth(Len(AskedOrder)))

(***************************************************************************)
(* Properties of the id assignment.                                        *)
(***************************************************************************)
\* the number of decimal digits of n >= 1, by its defining inequality
NumDigits(n) ==
    CHOOSE d \in 1..9 :
        /\ (d = 1 \/ n >= 10^(d - 1))
        /\ (d = 9 \/ n < 10^d)

\* C4: of n files, the one at position i gets the prefix followed by i in
\* decimal, zero-padded to max(4, digits of n) characters; the ids at two
\* positions differ and are ordered like the positions
C4_IdFormat ==
    id_i > 0 =>
        LET pre == IF id_typed = <<>> THEN <<70>> ELSE id_typed
            w == IF NumDigits(id_n) > 4 THEN NumDigits(id_n) ELSE 4
            digits == SubSeq(id_cur, Len(pre) + 1, Len(id_cur))
        IN /\ Len(id_cur) = Len(pre) + w
           /\ SubSeq(id_cur, 1, Len(pre)) = pre
           /\ \A k \in 1..Len(digits) : digits[k] \in 48..57
           /\ DecimalValue(digits) = id_i
           /\ id_prev.i > 0 => id_prev.id # id_cur /\ SeqLess(id_prev.id, id_cur)

\* of 10000 files, the ids of the last two: five digits each
C4_Witness ==
    /\ id_n = 10000 /\ id_i = 10000 /\ id_prev.i = 9999
    /\ Len(id_cur) = Len(id_prev.id)

(***************************************************************************)
(* Properties of the knowledge encoder.                                    *)
(***************************************************************************)
\* the knowledge files that were opened and written
WrittenFiles == {k \in 1..Len(kfiles) : kfiles[k].written}

\* the position of path q in sequence ps (0 if absent)
PosIn(ps, q) ==
    LET hits == {i \in 1..Len(ps) : ps[i] = q}
    IN IF hits = {} THEN 0 ELSE CHOOSE i \in hits : \A j \in hits : i <= j

\* C6: the short DocIDs of the documents of one knowledge file are pairwise
\* distinct
C6_DocIdsDistinct ==
    \A k \in WrittenFiles : \A i, j \in 1..Len(kfiles[k].docs) :
        i # j => kfiles[k].docs[i].short_id # kfiles[k].docs[j].short_id

\* C7: whatever the order in which the extractions of a batch complete, the
\* worker's list is the queue sorted by file name (ties in queue order), and
\* the table of contents and the documents of each knowledge file follow it
C7_OutputOrder ==
    /\ KnowAlive /\ kpc # "sort" =>
          /\ Len(file_paths) = Len(file_queue)
          /\ \A i, j \in 1..Len(file_paths) : i < j =>
                /\ ~SeqLess(Basename(file_paths[j]), Basename(file_paths[i]))
                /\ PosIn(file_queue, file_paths[i]) > 0
                /\ Basename(file_paths[i]) = Basename(file_paths[j]) =>
                      PosIn(file_queue, file_paths[i]) < PosIn(file_queue, file_paths[j])
    /\ \A k \in WrittenFiles :
          /\ Len(kfiles[k].toc) = Len(kfiles[k].docs)
          /\ \A i \in 1..Len(kfiles[k].docs) :
                kfiles[k].toc[i].short_id = kfiles[k].docs[i].short_id
          /\ \A i, j \in 1..Len(kfiles[k].docs) : i < j =>
                PosIn(file_paths, kfiles[k].docs[i].src)
                    < PosIn(file_paths, kfiles[k].docs[j].src)

\* a knowledge file of two documents whose extractions completed in the
\* opposite order
C7_Witness ==
    \E k \in WrittenFiles :
        /\ Len(kfiles[k].docs) = 2
        /\ PosIn(completed, kfiles[k].docs[2].src)
              < PosIn(completed, kfiles[k].docs[1].src)

\* the batch (from 1) that holds position i of the sorted list
BatchOf(i) == ((i - 1) \div chunk_size) + 1

C9_OpenFailureFatal ==
    /\ fail_batch # 0 =>
          /\ ~(kpc \in {"pool", "write"} /\ batch_num > fail_batch)
          /\ \A k \in WrittenFiles : kfiles[k].batch < fail_batch
    /\ bpc = "failed" => out = NoBundle


(***************************************************************************)
(* Properties of the channel.                                              *)
(***************************************************************************)
\* the lines that log_message appends for the events es, in their order
RECURSIVE LinesOf(_)
LinesOf(es) ==
    IF es = <<>> THEN <<>>
    ELSE IF IsProgress(Head(es)) THEN LinesOf(Tail(es))
    ELSE <<DisplayLine(Head(es))>> \o LinesOf(Tail(es))

IsPrefix(a, b) == Len(a) <= Len(b) /\ SubSeq(b, 1, Len(a)) = a
IsSuffix(a, b) == Len(a) <= Len(b) /\ SubSeq(b, Len(b) - Len(a) + 1, Len(b)) = a

\* C11: the events of a worker reach the presentation layer in the order
\* the worker put them, under every interleaving of the worker with the
\* poll: the events taken so far followed by those still queued are the
\* events put, and the lines on display are, in that same order, the lines
\* of the events taken last
C11_ProducerOrder ==
    /\ delivered \o log_queue = enqueued
    /\ IsSuffix(log_display, LinesOf(delivered))

\* the worker has put three events and ended; the poll has taken all three:
\* two lines are on display and the progress update put between them has
\* set the bar
C11_Witness ==
    /\ Len(delivered) = 3 /\ Len(log_display) = 2
    /\ IsProgress(delivered[2]) /\ progress = 50
    /\ log_queue = <<>> /\ producer = "dead"

\* the events that sum a run up: the counts of the reference sheet (line
\* 1233), of the knowledge encoder (1169-1170), the size of the bundle (979)
IsSummary(e) ==
    e.text \in {"Successfully indexed {} unique documents (from {} matches).",
                "Total files failed: ", "Bundle size: ~{} bytes"}

\* C12: every run ends with a summary line: when the worker of a reference
\* sheet run has ended, on whatever path, the last event it has put is the
\* summary with its counts
C12_RunEndsWithSummary ==
    rpc = "done" => /\ ref_events # <<>>
                    /\ IsSummary(ref_events[Len(ref_events)])

(***************************************************************************)
(* Properties of the reference sheet.                                      *)
(***************************************************************************)
\* the lines of the i-th selected file that the run has read: all of them,
\* or those before the read that failed, or none if it could not be opened
ReadLines(i) ==
    LET path == input_paths[i]
        hit == {f \in {ref_faults[j] : j \in 1..Len(ref_faults)} : f.path = path}
    IN IF hit = {} THEN 1..Len(RefLines(path))
       ELSE {l \in 1..Len(RefLines(path)) : \A f \in hit : l < f.line}

\* the matching lines read, as <<file, line>> positions in scan order
MatchingLines ==
    {pos \in UNION {{<<i, l>> : l \in ReadLines(i)} : i \in 1..Len(input_paths)} :
        doc_id_regex_match(RefLines(input_paths[pos[1]])[pos[2]])[1]}

MatchAt(pos) == doc_id_regex_match(RefLines(input_paths[pos[1]])[pos[2]])

ScanBefore(p, q) == p[1] < q[1] \/ (p[1] = q[1] /\ p[2] < q[2])

\* the matching lines that carry the DocID of pos
SameIdLines(pos) == {q \in MatchingLines : MatchAt(q)[2] = MatchAt(pos)[2]}

\* the first of them in scan order
FirstLine(pos) ==
    CHOOSE q \in SameIdLines(pos) : \A r \in SameIdLines(pos) : r = q \/ ScanBefore(q, r)

\* the entry that a matching line stands for
EntryOf(pos) ==
    [short_id |-> MatchAt(pos)[2], title |-> MatchAt(pos)[3],
     source |-> Basename(input_paths[pos[1]])]

EntriesOf(index) == {index[i] : i \in 1..Len(index)}

\* C19: first occurrence wins: once the worker has ended, the manifest holds
\* for every DocID of a matching line exactly one entry, with the title and
\* the source file of the first matching line in scan order (files in input
\* order, lines top to bottom), and the sheet written lists these entries
C19_FirstOccurrenceWins ==
    rpc = "done" =>
        /\ \A pos \in MatchingLines :
              /\ Cardinality({i \in 1..Len(doc_references) :
                     doc_references[i].short_id = MatchAt(pos)[2]}) = 1
              /\ EntryOf(FirstLine(pos)) \in EntriesOf(doc_references)
        /\ ref_out.written =>
              /\ Len(ref_out.index) = Len(doc_references)
              /\ EntriesOf(ref_out.index) = EntriesOf(doc_references)

\* a sheet was written from two files that both list one DocID, under
\* different titles
C19_Witness ==
    /\ rpc = "done" /\ ref_out.written
    /\ \E p, q \in MatchingLines :
          /\ p[1] # q[1]
          /\ MatchAt(p)[2] = MatchAt(q)[2]
          /\ MatchAt(p)[3] # MatchAt(q)[3]

\* the number of events of this run with the fixed text t
CountEvents(t) == Cardinality({j \in 1..Len(ref_events) : ref_events[j].text = t})

\* the lines read that hold the token "[DocID:" and fail the pattern
MismatchLines ==
    {pos \in UNION {{<<i, l>> : l \in ReadLines(i)} : i \in 1..Len(input_paths)} :
        /\ ~doc_id_regex_match(RefLines(input_paths[pos[1]])[pos[2]])[1]
        /\ HasDocIdToken(RefLines(input_paths[pos[1]])[pos[2]])}

\* C20: the indexer continues past isolated failures: once the worker has
\* ended, every file that could not be opened or read and every line with
\* the token that fails the pattern has produced one log entry and nothing
\* else; every file was scanned and counted, and every matching line of the
\* other files, and of the same file before the failure, is in the manifest
C20_ContinuesPastFailures ==
    rpc = "done" =>
        /\ CountEvents("  Could not parse file: ") = Len(ref_faults)
        /\ CountEvents("  Skipped line (format mismatch): ") = Cardinality(MismatchLines)
        /\ CountEvents("Scanning: ") = Len(input_paths)
        /\ CountEvents("  Found {} entries") = Len(input_paths)
        /\ total_matches = Cardinality(MatchingLines)
        /\ \A pos \in MatchingLines :
              \E i \in 1..Len(doc_references) :
                  doc_references[i].short_id = MatchAt(pos)[2]

\* a run over two files in which a line of the first fails the pattern, the
\* read of the first fails after a line that matched, and the sheet lists
\* that line and those of the second file
C20_Witness ==
    /\ rpc = "done" /\ ref_out.written
    /\ Len(input_paths) = 2
    /\ MismatchLines # {}
    /\ \E j \in 1..Len(ref_faults) :
          ref_faults[j].path = input_paths[1] /\ ref_faults[j].line > 1
    /\ \E p, q \in MatchingLines : p[1] = 1 /\ q[1] = 2

(***************************************************************************)
(* Properties of the MOBI extractor.                                       *)
(***************************************************************************)
\* C13: the MOBI extractor always releases its scratch location: when a
\* call in which the unpack step handed over its scratch directory has
\* returned or raised (text returned, no text part found, a part that
\* failed to read), that directory no longer exists
C13_ScratchReleased ==
    (mpc \in {"returned", "raised"} /\ temp_dir # None) => scratch = None

\* a call has raised after the unpack step had made the directory: a part
\* failed to read after another was read, or no part was found in a
\* directory that held a file
C13_Witness ==
    /\ mpc = "raised" /\ temp_dir # None /\ scratch = None
    /\ m_i >= 1
    /\ parts # <<>> \/ m_i > 1

(***************************************************************************)
(* Properties of the traversal.                                            *)
(***************************************************************************)
YieldedSet == {w_yielded[i] : i \in 1..Len(w_yielded)}

\* the rules of the list other than "build/"
OtherRules == SelectSeq(w_patterns, LAMBDA r : r # RULE_BUILD)

\* C14: with the rule "build/" in the rule list, a finished traversal has
\* yielded neither build/x.txt nor a/build/y.txt, and it has yielded
\* buildup/z.txt when no other rule matches that file or its directory
C14_BuildRule ==
    (w_stack = <<>> /\ \E k \in 1..Len(w_patterns) : w_patterns[k] = RULE_BUILD) =>
        /\ <<98,117,105,108,100,47,120,46,116,120,116>> \notin YieldedSet
        /\ <<97,47,98,117,105,108,100,47,121,46,116,120,116>> \notin YieldedSet
        /\ (/\ ~should_ignore(<<122,46,116,120,116>>,
                              <<98,117,105,108,100,117,112,47,122,46,116,120,116>>,
                              OtherRules)
            /\ ~should_ignore(<<98,117,105,108,100,117,112>>,
                              <<98,117,105,108,100,117,112,47>>, OtherRules))
           => <<98,117,105,108,100,117,112,47,122,46,116,120,116>> \in YieldedSet

\* a traversal under "build/" and one more rule has ended: it has gone
\* through a/ and buildup/ and yielded a/k.txt and buildup/z.txt
C14_Witness ==
    /\ w_stack = <<>>
    /\ Len(w_patterns) = 2 /\ w_patterns[1] = RULE_BUILD
    /\ <<97,47,107,46,116,120,116>> \in YieldedSet
    /\ <<98,117,105,108,100,117,112,47,122,46,116,120,116>> \in YieldedSet

\* C15: ignored directories are pruned: no file that the traversal yields
\* lies, at any depth, below a directory of the tree for which
\* should_ignore holds under the rule list
C15_IgnoredDirsPruned ==
    \A f \in YieldedSet :
        \A d \in AncestorDirs(f) : ~should_ignore(DirName(d), d, w_patterns)

\* a finished traversal that yielded files, under a rule list that ignores a
\* directory holding a file which no rule matches by itself
C15_Witness ==
    /\ w_stack = <<>> /\ w_yielded # <<>>
    /\ \E f \in WalkTree :
          /\ ~should_ignore(Basename(f), f, w_patterns)
          /\ \E d \in AncestorDirs(f) : should_ignore(DirName(d), d, w_patterns)

(***************************************************************************)
(* Properties of the rule list.                                            *)
(***************************************************************************)
\* C16: the rules of the ignore file only supplement the defaults: whatever
\* the ignore file holds (lines starting with '!' among them) and however
\* far it is read, a path that should_ignore ignores under the default
\* rules alone is ignored under the rule list of the run as well
C16_DefaultsKept ==
    ig_pc = "done" => (ig_default => ig_merged)

\* a path ignored by a default rule was tried under a rule list in which
\* the ignore file negates that very rule
C16_Witness ==
    /\ ig_pc = "done" /\ ig_default /\ ig_merged
    /\ ig_path = P_BUILD_X
    /\ \E k \in 1..Len(ig_rules) : ig_rules[k] = GI_NOT_BUILD

(***************************************************************************)
(* Properties of the DocID.                                                *)
(***************************************************************************)
\* text[:n]
FirstChars(text, n) == SubSeq(text, 1, Min(n, Len(text)))

BothEncoded == dpc = "done" /\ res_a.ok /\ res_b.ok

\* the three slices that enter the hash of a text longer than 2000
\* characters: its first 2000, the 2000 around its middle, its last 2000
SameSlices(t, u) ==
    /\ Len(t) = Len(u)
    /\ \A i \in 1..Len(t) :
          (\/ i <= 2000
           \/ (i > Len(t) \div 2 - 1000 /\ i <= Len(t) \div 2 + 1000)
           \/ i > Len(t) - 2000) => t[i] = u[i]

\* C17 as stated: two plain-text inputs with the same derived title and the
\* same first 2000 characters of extracted text get the same DocID,
\* whatever the length of the texts and wherever the files are stored
C17_SameHeadSameId ==
    (/\ BothEncoded
     /\ res_a.title = res_b.title
     /\ FirstChars(doc_a.text, 2000) = FirstChars(doc_b.text, 2000))
    => res_a.short_id = res_b.short_id

\* C17: two plain-text inputs with the same derived title get the same
\* DocID, wherever the files are stored, when their extracted texts are
\* equal, or are both longer than 2000 characters, of one length, and agree
\* on the first 2000, the middle 2000 and the last 2000 characters
C17_SameSampleSameId ==
    (/\ BothEncoded
     /\ res_a.title = res_b.title
     /\ \/ doc_a.text = doc_b.text
        \/ (Len(doc_a.text) > 2000 /\ SameSlices(doc_a.text, doc_b.text)))
    => res_a.short_id = res_b.short_id

\* two files stored in different directories, whose texts of 6002
\* characters differ outside the three slices, got one DocID
C17_Witness ==
    /\ BothEncoded
    /\ doc_a.path # doc_b.path /\ res_a.title = res_b.title
    /\ doc_a.text # doc_b.text /\ Len(doc_a.text) > 6000
    /\ SameSlices(doc_a.text, doc_b.text)
    /\ res_a.short_id = res_b.short_id

(***************************************************************************)
(* Properties of the short id.                                             *)
(***************************************************************************)
\* the residue modulo m of the number that the digits ds (values, most
\* significant first) write in the given base
RECURSIVE Residue(_, _, _)
Residue(ds, base, m) ==
    IF ds = <<>> THEN 0
    ELSE (Residue(SubSeq(ds, 1, Len(ds) - 1), base, m) * base + ds[Len(ds)]) % m

\* the value of a symbol of the 36-symbol alphabet: digits, then letters
SymbolValue(c) == IF c \in 48..57 THEN c - 48 ELSE c - 55

\* the numeral without its leading zero symbols (one is kept for zero)
RECURSIVE Unpadded(_)
Unpadded(body) ==
    IF Len(body) > 1 /\ Head(body) = 48 THEN Unpadded(Tail(body)) ELSE body

\* body is the base-36 numeral of the number that the hex digits write:
\* made of the 36 symbols, no longer than ten symbols without its padding,
\* and equal to that number modulo three primes whose product exceeds 36^10
IsBase36Of(body, hex) ==
    /\ body # <<>>
    /\ \A i \in 1..Len(body) : body[i] \in 48..57 \/ body[i] \in 65..90
    /\ Len(Unpadded(body)) <= 10
    /\ \A m \in {999983, 1000003, 1000033} :
          Residue([i \in 1..Len(body) |-> SymbolValue(body[i])], 36, m)
            = Residue([i \in 1..Len(hex) |-> HexVal(hex[i])], 16, m)

\* C18: the short id is a function of (full hash, prefix, length): for a
\* hash sha256-<hex> it is the prefix followed by the base-36 numeral
\* (digits, then uppercase letters) of the first 12 hex digits, padded on
\* the left with '0' to length symbols and no further; the second call on
\* the same arguments returns the same id
C18_ShortIdFormat ==
    sid_calls = 2 /\ sid_hash # <<>> =>
        LET body == SubSeq(sid_first, Len(sid_prefix) + 1, Len(sid_first))
        IN  /\ sid_second = sid_first
            /\ StartsWith(sid_first, sid_prefix)
            /\ IsBase36Of(body, SubSeq(sid_hash, 8, 19))
            /\ Len(body) = Max(sid_length, Len(Unpadded(body)))

\* both calls were made on a hash whose numeral is shorter than the length
\* asked for, under a prefix: the id is padded
C18_Witness ==
    /\ sid_calls = 2 /\ sid_prefix # <<>> /\ sid_length = 6
    /\ Len(sid_first) = Len(sid_prefix) + 6
    /\ sid_first[Len(sid_prefix) + 1] = 48
    /\ sid_first[Len(sid_first)] # 48


(***************************************************************************)
(* Properties of the text normalizer.                                      *)
(***************************************************************************)
\* the characters of a text that are not whitespace
Ink(t) == SelectSeq(t, LAMBDA c : ~IsSpace(c))

\* g is the prose gap with its runs of spaces collapsed: the same visible
\* characters in the same order, no two spaces in a row
Collapsed(g, gap) ==
    /\ Ink(g) = Ink(gap)
    /\ \A i \in 1..(Len(g) - 1) : ~(g[i] = 32 /\ g[i + 1] = 32)

\* res is the text t from position i on with every code span of t copied
\* character for character, in order, and the prose between them collapsed
RECURSIVE Preserves(_, _, _)
Preserves(res, t, i) ==
    LET starts == {p \in i..Len(t) : SpanEnd(t, p) # 0}
    IN IF starts = {}
       THEN Collapsed(res, SubSeq(t, i, Len(t)))
       ELSE LET p == CHOOSE q \in starts : \A r \in starts : q <= r
                e == SpanEnd(t, p)
                span == SubSeq(t, p, e)
            IN \E n \in 0..Len(res) :
                  /\ Collapsed(SubSeq(res, 1, n), SubSeq(t, i, p - 1))
                  /\ n + Len(span) <= Len(res)
                  /\ SubSeq(res, n + 1, n + Len(span)) = span
                  /\ Preserves(SubSeq(res, n + Len(span) + 1, Len(res)), t,
                               e + 1)

\* C21 as stated: every code span of the text given (between a pair of
\* fences or between the two sentinels) is in the text returned with
\* exactly its characters, in order, and the prose between is collapsed
C21_SpansOfInputUntouched ==
    norm_done /\ norm_in # <<>> => Preserves(norm_out, norm_in, 1)

\* C21: every code span of the sanitized text (line endings standardized,
\* control characters removed, inside code spans too) is in the text
\* returned with exactly its characters, in order, and the runs of spaces
\* of the prose between the spans are collapsed
C21_SpansOfSanitizedUntouched ==
    norm_done /\ norm_in # <<>> =>
        Preserves(norm_out, sanitize_text(norm_in), 1)

\* prose with two spaces inside, then a fenced span with two spaces inside:
\* the prose is collapsed, the span is not
C21_Witness ==
    /\ norm_done
    /\ norm_in = <<120,32,32,121>> \o FENCE \o <<32,32>> \o FENCE
    /\ norm_out = <<120,32,121>> \o FENCE \o <<32,32>> \o FENCE


(***************************************************************************)
(* Properties of the code bundler on files that cannot always be read.     *)
(***************************************************************************)
\* the notes of the index that say a file was skipped
SkipNotes == {"binary: skipped", "read error: skipped"}

\* the files of the run whose read raised in one of the two passes
ReadFailed == meta_failed \cup write_failed

\* the section holds the '[No content]' placeholder
Placeholder(sec) == sec.kind # "content"

IndexPaths == [i \in 1..Len(out.index) |-> out.index[i].path]
SectionPaths == [i \in 1..Len(out.sections) |-> out.sections[i].path]

\* C22: a read error on a file never aborts the run: the worker fails only
\* on opening the output, and in a completed run every file collected is
\* indexed and has its section, the completion line is written, a file
\* whose read raised (metadata pass, write pass or both) has the
\* placeholder and a note (in its index row or a [SKIPPED] line), and a
\* text file whose reads did not raise is written or skipped for the cap
C22_ReadErrorsDegrade ==
    /\ bpc = "failed" => out = NoBundle
    /\ bpc = "done" =>
        /\ out.state = "closed" /\ out.footer = <<Len(files), written_total>>
        /\ IndexPaths = files /\ SectionPaths = files
        /\ \A i \in 1..Len(files) :
              IF files[i] \in ReadFailed
              THEN /\ Placeholder(out.sections[i])
                   /\ \/ out.index[i].note \in SkipNotes
                      \/ out.sections[i].kind \in {"binary", "unreadable"}
              ELSE is_probably_binary(files[i], TRUE)
                   \/ out.sections[i].kind \in {"content", "limit"}

\* C24: the sections written so far are those of the first rows of the
\* index, one each and in its order, with both markers carrying the id of
\* the row; ids are not shared; a closed bundle has a section for every
\* row; a file classified binary, or unreadable in the write pass, has the
\* placeholder between its markers and none of its bytes
C24_OneSectionPerFile ==
    out.state # "none" =>
        /\ Len(out.sections) <= Len(out.index)
        /\ out.state = "closed" => Len(out.sections) = Len(out.index)
        /\ \A i, j \in 1..Len(out.index) :
              i # j => out.index[i].id # out.index[j].id
        /\ \A i \in 1..Len(out.sections) :
              /\ out.sections[i].path = out.index[i].path
              /\ out.sections[i].begin = out.index[i].id
              /\ out.sections[i].end = out.index[i].id
              /\ (out.index[i].is_binary \/ out.index[i].path \in write_failed)
                    => Placeholder(out.sections[i]) /\ out.sections[i].bytes = 0

\* a closed bundle with a section that embeds bytes, one of a binary file
\* and one of a file that could not be read in the write pass
C24_Witness ==
    /\ bpc = "done" /\ out.state = "closed"
    /\ \E i, j, k \in 1..Len(out.sections) :
          /\ out.sections[i].kind = "content" /\ out.sections[i].bytes > 0
          /\ out.sections[j].kind = "binary"
          /\ out.sections[k].kind = "unreadable"
          /\ fsize[out.sections[k].path] > 0 /\ args.C > 0

\* C30: in a closed bundle a section holds the placeholder exactly when the
\* index row of its file, and the NOTE line of the section, carry a skip note
C30_IndexAgreesWithSections ==
    out.state = "closed" =>
        \A i \in 1..Len(out.sections) :
            Placeholder(out.sections[i])
              <=> (out.index[i].note \in SkipNotes
                   /\ out.sections[i].note \in SkipNotes)


(***************************************************************************)
(* Properties of the code bundler on a project root of any kind.           *)
(***************************************************************************)
\* C23: when the path of the project root named no directory (nothing, or
\* a regular file) as the bundle button was pressed, the output file has not
\* been opened for writing since: it is neither created nor truncated
C23_InvalidRootNoWrite == root_at_start # "dir" => ~wrote


(***************************************************************************)
(* Properties of the batches of the knowledge encoder.                     *)
(***************************************************************************)
\* the places (file, position) at which the document of path q is written
PlacesOf(q) ==
    {<<k, d>> \in (1..Len(kfiles)) \X (1..MaxQueue) :
        d <= Len(kfiles[k].docs) /\ kfiles[k].docs[d].src = q}

\* while a batch is extracted or written: it is the batch_num-th consecutive
\* slice of chunk_size paths of the sorted list (the last one shorter), the
\* files of all batches before it are written or skipped, every path of
\* those batches has its outcome and no path of a later batch has one
BatchesInSequence ==
    kpc \in {"pool", "write"} =>
        /\ batch_num \in 1..NumChunks(file_paths, chunk_size)
        /\ Len(chunk) =
              IF batch_num * chunk_size <= Len(file_paths) THEN chunk_size
              ELSE Len(file_paths) - (batch_num - 1) * chunk_size
        /\ Len(chunk) >= 1
        /\ \A j \in 1..Len(chunk) :
              chunk[j] = file_paths[(batch_num - 1) * chunk_size + j]
        /\ pending \subseteq {chunk[j] : j \in 1..Len(chunk)}
        /\ Len(kfiles) = batch_num - 1
        /\ \A i \in 1..Len(file_paths) :
              /\ BatchOf(i) < batch_num => Len(outcomes[file_paths[i]]) = 1
              /\ BatchOf(i) > batch_num => outcomes[file_paths[i]] = <<>>

\* every document written is in the file of the batch of its path
WrittenInOwnBatch ==
    \A k \in 1..Len(kfiles) :
        /\ kfiles[k].batch = k
        /\ \A d \in 1..Len(kfiles[k].docs) :
              /\ PosIn(file_paths, kfiles[k].docs[d].src) > 0
              /\ BatchOf(PosIn(file_paths, kfiles[k].docs[d].src)) = k

C28_TotalsAccountForInputs ==
    kpc \in {"summary", "done"} =>
        total_processed + total_failed = Len(file_paths)


(***************************************************************************)
(* Properties of the table of contents read back by the indexer.           *)
(***************************************************************************)
\* C29: the line that the knowledge encoder writes for a successfully
\* extracted document is accepted by the pattern of the indexer, which
\* registers an entry with the DocID and the title of the document
C29_TocLineReadBack ==
    (toc_pc = "done" /\ toc_doc.ok) =>
        /\ Len(toc_refs) = 1
        /\ toc_refs[1].short_id = toc_doc.short_id
        /\ toc_refs[1].title = toc_doc.title


(***************************************************************************)
(* Properties of the poll and of the start actions.                        *)
(***************************************************************************)
\* C26: once the poll has stopped (the callback found the worker dead and
\* re-enabled the controls) the channel is empty: every event the worker
\* put was taken and displayed
C26_ChannelDrained ==
    ~polling => log_queue = <<>> /\ delivered = enqueued


\* the workers that are running
AliveWorkers ==
    {w \in {"bundle", "knowledge", "reference", "producer"} :
        \/ w = "bundle" /\ bpc \notin {"idle", "done", "failed"}
        \/ w = "knowledge" /\ kpc \notin {"idle", "done"}
        \/ w = "reference" /\ rpc \notin {"idle", "done"}
        \/ w = "producer" /\ producer = "alive"}

\* C27: at most one worker is alive at any time and the controls are off
\* while it is; a worker is started only with the controls on and no worker
\* alive; the controls come back on only in a poll that found no worker
\* alive; and once a worker has ended the controls do come back on
C27_OneWorkerAtATime ==
    /\ [](Cardinality(AliveWorkers) <= 1)
    /\ [](AliveWorkers # {} => ~ui_enabled /\ polling)
    /\ [][AliveWorkers' \ AliveWorkers # {}
            => ui_enabled /\ AliveWorkers = {}]_vars
    /\ [][~ui_enabled /\ ui_enabled'
            => AliveWorkers = {} /\ polling /\ ~polling']_vars
    /\ (AliveWorkers = {} /\ ~ui_enabled) ~> ui_enabled

\* the knowledge worker runs after a bundle worker has ended and the poll
\* has given the controls back
C27_Witness ==
    /\ bpc = "done"
    /\ AliveWorkers = {"knowledge"}
    /\ ~ui_enabled

====
